---- MODULE Spec2Model ----
(***************************************************************************)
(* The recipe / attempt / best-attempt store of cook-cook (the Express +   *)
(* Prisma server) as a state machine.  Every request handler is a process  *)
(* whose steps are the handler's database calls: one action is one awaited *)
(* Prisma call together with the synchronous code that follows it up to    *)
(* the next awaited call or the response.  Requests of different callers   *)
(* interleave between those steps.                                         *)
(***************************************************************************)
EXTENDS Naturals, Sequences, FiniteSets, TLC

\* ------------------------------------------------------------------ bounds
\* the number of requests of one run; every id generator stays below it
MaxRequests == 3

\* the null of a nullable id column (bestAttemptId, authorId, recipeId, attemptId)
NoId == 0

Procs == {"p1", "p2"}

\* the registered users at the start
UserIds == {1, 2}

\* an id that names no row: no generator reaches it
UnknownId == MaxRequests + 1

VARIABLES
  users,          \* rows of table User (their ids)
  recipes,        \* table Recipe: id -> row
  attempts,       \* table Attempt: id -> row
  images,         \* table Image in insertion order: rows [url, recipeId, attemptId]
  nextRecipeId,   \* ids are generated unique and never reused
  nextAttemptId,
  proc,           \* per request slot: the request in flight and its position
  last,           \* the request answered by the last step, with its response
  started,        \* the number of requests received so far
  accounts,       \* table User: id -> [email, passwordHash]
  nextUserId,
  auth,           \* per request slot: the auth request in flight
  answer,         \* the auth request answered by the last step, with its response
  limiterHits,    \* the rate limiters' stores: limiter -> caller -> requests counted
  route,          \* the route the callers send their requests to
  sent,           \* per caller: the requests sent to the route in the current window
                  \* that requireAuth did not turn away
  reply,          \* how the last request sent to the route was answered
  expanded,       \* frontend App: per recipe the entry of its panel (open, choosing,
                  \* choosingError), or none
  attemptForms,   \* frontend App: per recipe the attempt form (submitting, file)
  calls,          \* frontend App: per task the running call and the await it is at
  rendered        \* frontend App: what the handlers read of expanded and attemptForms,
                  \* as of the last render

vars == <<users, recipes, attempts, images,
          nextRecipeId, nextAttemptId, proc, last, started,
          accounts, nextUserId, auth, answer,
          limiterHits, route, sent, reply,
          expanded, attemptForms, calls, rendered>>

authVars == <<accounts, nextUserId, auth, answer>>

limiterVars == <<limiterHits, route, sent, reply>>

frontVars == <<expanded, attemptForms, calls, rendered>>

store == <<users, recipes, attempts, images>>

\* ------------------------------------------------------------------ JS values
\* A JSON value of a request body: its typeof-class and its content.
Undef == [t |-> "undefined", v |-> <<>>]
JNull == [t |-> "null", v |-> <<>>]
Num == [t |-> "number", v |-> <<"7">>]
Str(s) == [t |-> "string", v |-> s]
Arr(s) == [t |-> "array", v |-> s]
Obj(s) == [t |-> "object", v |-> s]

\* String.prototype.trim on a string given as a sequence of characters
RECURSIVE TrimLeft(_)
TrimLeft(s) ==
  IF s # <<>> /\ Head(s) = " " THEN TrimLeft(Tail(s)) ELSE s

RECURSIVE TrimRight(_)
TrimRight(s) ==
  IF s # <<>> /\ s[Len(s)] = " " THEN TrimRight(SubSeq(s, 1, Len(s) - 1)) ELSE s

TrimTrailingOnly(s) == TrimRight(s)

Trim(s) == TrimRight(TrimLeft(s))

\* the truthiness of a value: undefined, null and "" are falsy; the number 7,
\* every other string, every array and every object are truthy
Truthy(x) ==
  CASE x.t \in {"undefined", "null"} -> FALSE
    [] x.t = "string" -> x.v # <<>>
    [] OTHER -> TRUE

isNonEmptyString(x) == x.t = "string" /\ Trim(x.v) # <<>>
isStringOrEmpty(x) == x.t = "string"
isPlainObject(x) == x.t = "object"
isArray(x) == x.t = "array"
ensureArray(x) == IF isArray(x) THEN x.v ELSE <<>>

\* ids are strings in the code: the string of id n, and the id a string names
IdChars == <<"1", "2", "3", "4", "5", "6", "7", "8", "9">>
IdStr(n) == Str(<<IdChars[n]>>)
IdOf(x) ==
  IF x.t = "string" /\ Len(x.v) = 1 /\ \E n \in DOMAIN IdChars : IdChars[n] = x.v[1]
  THEN CHOOSE n \in DOMAIN IdChars : IdChars[n] = x.v[1]
  ELSE NoId

\* ------------------------------------------------------------------ payloads
Payload(ti, bo, fe, im, me, be, au) ==
  [title |-> ti, body |-> bo, feedback |-> fe, images |-> im, meta |-> me,
   bestAttemptId |-> be, authorId |-> au]

EmptyPayload == Payload(Undef, Undef, Undef, Undef, Undef, Undef, Undef)

CreatePayloads ==
  { Payload(Str(<<"a">>), Str(<<"b">>), Undef, Arr(<<"u1">>), Undef, Undef, Undef),
    Payload(Str(<<" ", "a">>), Str(<<" ">>), Undef, Undef, Undef, Undef, IdStr(1)),
    Payload(Str(<<"a">>), Undef, Str(<<"a">>), Undef, Obj(<<"k">>), Undef, Undef),
    Payload(Str(<<"b">>), Str(<<>>), Undef, Undef, Undef, Undef, Undef),
    Payload(Str(<<" ">>), Str(<<"b">>), Undef, Undef, Undef, Undef, Undef),
    Payload(Undef, Str(<<"b">>), Undef, Arr(<<"u1">>), Undef, Undef, Undef),
    Payload(Num, Undef, Undef, Undef, Undef, Undef, Undef),
    Payload(Str(<<"b">>), Undef, Undef, Undef, Undef, Undef, Str(<<"x">>)) }

PutPayloads ==
  { EmptyPayload,
    Payload(Str(<<"b", " ">>), Undef, Undef, Arr(<<"u2">>), Undef, Undef, Undef),
    Payload(Str(<<" ">>), Undef, Undef, Arr(<<"u2">>), Undef, Undef, Undef) }

\* the ids a caller can name: those generated so far, and one naming nothing
RecipeIds == (1..(nextRecipeId - 1)) \cup {UnknownId}
AttemptIds == (1..(nextAttemptId - 1)) \cup {UnknownId}

BestVals == {JNull} \cup {IdStr(a) : a \in AttemptIds}

PatchPayloads ==
  { Payload(Str(<<"b">>), Undef, Undef, Arr(<<"u2">>), Undef, b, Undef) : b \in BestVals }
  \cup { Payload(Undef, Str(<<"a">>), Undef, Undef, Undef, Undef, Undef),
         Payload(Undef, Undef, Undef, Undef, Undef, Num, Undef) }

AttemptPayloads ==
  { Payload(Undef, Str(<<"a">>), Undef, Arr(<<"u1">>), Undef, Undef, Undef),
    Payload(Undef, Str(<<" ">>), Undef, Undef, Undef, Undef, Undef),
    Payload(Undef, Num, Undef, Undef, Undef, Undef, Undef),
    Payload(Undef, Str(<<"a">>), Num, Undef, Undef, Undef, Undef) }

\* ------------------------------------------------------------------ rows
\* A recipe row.  createdAt is the order of insertion.  updatedAt stands for the
\* column Prisma maintains by itself ("updatedAt" DATETIME NOT NULL, never given by
\* the code): the number of times it has been renewed since the insert.
NoRecipe ==
  [id |-> NoId, title |-> <<>>, body |-> <<>>, feedback |-> <<>>, meta |-> <<>>,
   bestAttemptId |-> NoId, authorId |-> NoId, createdAt |-> NoId, updatedAt |-> 0]

\* what prisma.recipe.update does to updatedAt when its data holds a column
Renewed(row) == [row EXCEPT !.updatedAt = @ + 1]

NoAttempt ==
  [id |-> NoId, body |-> <<>>, feedback |-> <<>>, meta |-> <<>>,
   recipeId |-> NoId, createdAt |-> NoId, images |-> <<>>]

RECURSIVE AscSeq(_)
AscSeq(S) ==
  IF S = {} THEN <<>>
  ELSE LET m == CHOOSE x \in S : \A y \in S : x <= y
       IN <<m>> \o AscSeq(S \ {m})

Urls(rows) == [i \in 1..Len(rows) |-> rows[i].url]
ImageRowsUnowned(urls, rid, aid) ==
  [i \in 1..Len(urls) |-> [url |-> urls[i], recipeId |-> NoId, attemptId |-> NoId]]

\* images: { create: urls.map((url) => ({ url })) } nested in the create or update
\* of their owner
ImageRows(urls, rid, aid) ==
  [i \in 1..Len(urls) |-> [url |-> urls[i], recipeId |-> rid, attemptId |-> aid]]

\* prisma.recipe.findUnique({ where: { id } }) without include
FindRecipe(id) == IF id \in DOMAIN recipes THEN recipes[id] ELSE NoRecipe
\* prisma.attempt.findUnique({ where: { id } })
FindAttempt(a) ==
  IF a \in DOMAIN attempts THEN attempts[a] @@ [images |-> <<>>] ELSE NoAttempt

RecipeImages(imgs, id) == Urls(SelectSeq(imgs, LAMBDA i : i.recipeId = id))
AttemptImages(imgs, a) == Urls(SelectSeq(imgs, LAMBDA i : i.attemptId = a))

\* an attempt with include: { images: true }, images mapped to their urls
AttemptView(atts, imgs, a) == atts[a] @@ [images |-> AttemptImages(imgs, a)]

AttemptsOfAnyRecipe(atts, id) == DOMAIN atts

\* the attempts of a recipe: where: { recipeId: id }
AttemptsOf(atts, id) == {a \in DOMAIN atts : atts[a].recipeId = id}

\* a recipe with include: { images, attempts: { include: { images } } },
\* transformed to the response format (urls instead of image rows)
Transformed(recs, atts, imgs, id) ==
  LET as == AscSeq(AttemptsOf(atts, id))
  IN recs[id] @@
     [images |-> RecipeImages(imgs, id),
      attempts |-> [i \in 1..Len(as) |-> AttemptView(atts, imgs, as[i])]]

recipeWithBestFirst(r) ==
  r @@ [bestAttempt |->
          IF r.bestAttemptId # NoId /\ r.attempts # <<>> THEN r.attempts[1] ELSE NoAttempt]

recipeWithBestNull(r) == r @@ [bestAttempt |-> NoAttempt]

\* helper recipeWithBest: attach bestAttempt, looked up among the recipe's attempts
recipeWithBest(r) ==
  LET bestId == r.bestAttemptId
      hits == {i \in 1..Len(r.attempts) : r.attempts[i].id = bestId}
  IN r @@ [bestAttempt |->
             IF bestId # NoId /\ hits # {}
             THEN r.attempts[CHOOSE i \in hits : \A j \in hits : i <= j]
             ELSE NoAttempt]

\* ------------------------------------------------------------------ requests
Resp(status, errors, body) == [status |-> status, errors |-> errors, body |-> body]
NoResp == Resp(0, <<>>, <<>>)

Idle ==
  [pc |-> "idle", kind |-> "none", user |-> NoId, id |-> NoId, aid |-> NoId,
   payload |-> EmptyPayload, recipe |-> NoRecipe, imgs |-> <<>>, made |-> NoId,
   mine |-> FALSE, q |-> <<>>, resp |-> NoResp]

\* a request takes the first free slot
Free(p) ==
  /\ started < MaxRequests
  /\ proc[p].pc = "idle"
  /\ \A q \in Procs : proc[q].pc = "idle" => q = p \/ p = "p1"

Request(kind, pc, user, id, aid, payload) ==
  [Idle EXCEPT !.kind = kind, !.pc = pc, !.user = user, !.id = id, !.aid = aid,
               !.payload = payload]

Reply(r, status, errors, body) ==
  [r EXCEPT !.pc = "done", !.resp = Resp(status, errors, body)]

Goto(r, pc) == [r EXCEPT !.pc = pc]

\* the slot takes the request's next position; once answered it is free again
Become(p, r) ==
  /\ IF r.pc = "done"
     THEN proc' = [proc EXCEPT ![p] = Idle] /\ last' = r
     ELSE proc' = [proc EXCEPT ![p] = r] /\ last' = Idle
  /\ started' = IF proc[p].pc = "idle" THEN started + 1 ELSE started
  /\ UNCHANGED authVars
  /\ UNCHANGED limiterVars
  /\ UNCHANGED frontVars

\* bcrypt.hash and bcrypt.compare
Hash(pw) == <<"#">> \o pw
Compare(pw, hash) == hash = Hash(pw)

\* the rows of table User at the start
InitAccounts ==
  [u \in UserIds |->
     [email |-> IF u = 1 THEN <<"a">> ELSE <<"b">>, passwordHash |-> Hash(<<"p">>)]]

\* no row: what a lookup that finds nobody returns
NoRow == [id |-> NoId, email |-> <<>>, passwordHash |-> <<>>]

NoAuth ==
  [pc |-> "idle", kind |-> "none", user |-> NoId, email |-> Undef, password |-> Undef,
   newPassword |-> Undef, hash |-> <<>>, row |-> NoRow, made |-> NoId, resp |-> NoResp]

\* the callers a limiter tells apart: the key of a request is its IP address
Callers == {"ip1", "ip2"}

\* the routes that register, change or delete something, and the upload route
Routes ==
  {"register", "login", "logout", "updateMe", "changePassword", "deleteMe",
   "createRecipe", "putRecipe", "patchRecipe", "deleteRecipe",
   "addAttempt", "chooseBest", "upload"}

NoRoute == "none"
NoLimiter == "none"
Limiters == {"authLimiter", "writeLimiter"}

\* max of authLimiter and of writeLimiter
AuthMax == 20
WriteMax == 30

LimiterMax(lim) == IF lim = "authLimiter" THEN AuthMax ELSE WriteMax

\* the requests one caller sends in one window: one more than any limiter allows
MaxSent == WriteMax + 1

\* the limiter in the middleware chain of a route
LimiterOf(rt) ==
  CASE rt \in {"register", "login", "logout"} -> "authLimiter"
    [] rt \in {"createRecipe", "putRecipe", "patchRecipe", "deleteRecipe",
               "addAttempt", "chooseBest"} -> "writeLimiter"
    [] OTHER -> NoLimiter

NoHits == [lim \in Limiters |-> [c \in Callers |-> 0]]
NoSent == [c \in Callers |-> 0]
NoReply ==
  [caller |-> "none", session |-> FALSE, status |-> 0, field |-> <<>>, handled |-> FALSE]

\* the recipes shown in the frontend, the attempts of one, and the calls of the
\* App's handlers that can be running at once
FrontRecipes == {1}
FrontAttempts == {1}
Tasks == {"k1", "k2"}

\* no entry of expanded for a recipe
NoEntry == [present |-> FALSE, open |-> FALSE, choosing |-> NoId, choosingError |-> FALSE]
NoExpanded == [r \in FrontRecipes |-> NoEntry]
NoForm == [submitting |-> FALSE, file |-> FALSE]
NoForms == [r \in FrontRecipes |-> NoForm]
NoCall == [fn |-> "none", pc |-> "idle", recipeId |-> NoId, ok |-> FALSE]
NoCalls == [k \in Tasks |-> NoCall]

\* what the handlers of a render close over and read: the entries of expanded and
\* the file of each attempt form
Closure(exp, forms) ==
  [expanded |-> exp, attemptForms |-> [r \in FrontRecipes |-> [file |-> forms[r].file]]]
NoRendered == Closure(NoExpanded, NoForms)

Init ==
  /\ users = UserIds
  /\ recipes = <<>>
  /\ attempts = <<>>
  /\ images = <<>>
  /\ nextRecipeId = 1
  /\ nextAttemptId = 1
  /\ proc = [p \in Procs |-> Idle]
  /\ last = Idle
  /\ started = 0
  /\ accounts = InitAccounts
  /\ nextUserId = Cardinality(UserIds) + 1
  /\ auth = [p \in Procs |-> NoAuth]
  /\ answer = NoAuth
  /\ limiterHits = NoHits
  /\ route = NoRoute
  /\ sent = NoSent
  /\ reply = NoReply
  /\ expanded = NoExpanded
  /\ attemptForms = NoForms
  /\ calls = NoCalls
  /\ rendered = NoRendered

\* ------------------------------------------------------------------ tables
Without(f, gone) == [x \in DOMAIN f \ gone |-> f[x]]

Err(bad, field) == IF bad THEN <<field>> ELSE <<>>

\* the type checks shared by create, PUT, PATCH and add-attempt
FieldErrors(pl) ==
  Err(pl.feedback.t # "undefined" /\ ~isStringOrEmpty(pl.feedback), "feedback")
  \o Err(pl.images.t # "undefined" /\ ~isArray(pl.images), "images")
  \o Err(pl.meta.t # "undefined" /\ ~isPlainObject(pl.meta), "meta")

BodyError(pl) == Err(pl.body.t # "undefined" /\ ~isStringOrEmpty(pl.body), "body")

CreateErrorsUntrimmed(pl) ==
  Err(pl.title.t # "string" \/ pl.title.v = <<>>, "title")
  \o BodyError(pl) \o FieldErrors(pl)

CreateErrors(pl) ==
  Err(~isNonEmptyString(pl.title), "title") \o BodyError(pl) \o FieldErrors(pl)

UpdateErrors(pl) ==
  Err(pl.title.t # "undefined" /\ ~isNonEmptyString(pl.title), "title")
  \o BodyError(pl) \o FieldErrors(pl)

AttemptErrorsBodyPresent(pl) ==
  Err(pl.body.t = "undefined", "body") \o FieldErrors(pl)

AttemptErrors(pl) ==
  Err(~isNonEmptyString(pl.body), "body") \o FieldErrors(pl)

\* ------------------------------------------------------------------ POST /api/recipes
HasBodyUntrimmed(body) == body # <<>>

\* recipe.body && recipe.body.trim(): the recipe gets its automatic best attempt
HasBody(body) == Trim(body) # <<>>

\* validation, prisma.recipe.create with its nested image create, then the branch
\* on recipe.body
CreateRecipe(p, u, pl) ==
  LET r == Request("create", "c_attempt", u, NoId, NoId, pl)
      errors == CreateErrors(pl)
      given == u = NoId /\ Truthy(pl.authorId)
      author == IF u # NoId THEN u ELSE IF given THEN IdOf(pl.authorId) ELSE NoId
      id == nextRecipeId
      row == [id |-> id,
              title |-> Trim(pl.title.v),
              body |-> IF isStringOrEmpty(pl.body) THEN pl.body.v ELSE <<>>,
              feedback |-> IF isStringOrEmpty(pl.feedback) THEN pl.feedback.v ELSE <<>>,
              meta |-> IF isPlainObject(pl.meta) THEN pl.meta.v ELSE <<>>,
              bestAttemptId |-> NoId,
              authorId |-> author,
              createdAt |-> id,
              updatedAt |-> 0]
      recs == recipes @@ (id :> row)
      imgs == images \o ImageRows(ensureArray(pl.images), id, NoId)
  IN /\ Free(p)
     /\ IF errors # <<>>
        THEN /\ Become(p, Reply(r, 400, errors, <<>>))
             /\ UNCHANGED <<recipes, images, nextRecipeId>>
        ELSE IF (author # NoId \/ given) /\ author \notin users
        THEN /\ Become(p, Reply(r, 500, <<"database">>, <<>>))
             /\ UNCHANGED <<recipes, images, nextRecipeId>>
        ELSE /\ recipes' = recs
             /\ images' = imgs
             /\ nextRecipeId' = id + 1
             /\ Become(p,
                  IF HasBody(row.body)
                  THEN [r EXCEPT !.id = id, !.recipe = row, !.imgs = RecipeImages(imgs, id)]
                  ELSE Reply([r EXCEPT !.id = id, !.recipe = row], 201, <<>>,
                             recipeWithBest(Transformed(recs, attempts, imgs, id))))
     /\ UNCHANGED <<users, attempts, nextAttemptId>>

\* prisma.attempt.create: the automatic attempt copied from the recipe
CreateAttempt(p) ==
  LET r == proc[p]
      a == nextAttemptId
      row == [id |-> a, body |-> r.recipe.body, feedback |-> r.recipe.feedback,
              meta |-> r.recipe.meta, recipeId |-> r.id, createdAt |-> a]
  IN /\ r.pc = "c_attempt"
     /\ IF r.id \notin DOMAIN recipes
        THEN /\ Become(p, Reply(r, 500, <<"database">>, <<>>))
             /\ UNCHANGED <<attempts, images, nextAttemptId>>
        ELSE /\ attempts' = attempts @@ (a :> row)
             /\ images' = images \o ImageRows(r.imgs, NoId, a)
             /\ nextAttemptId' = a + 1
             /\ Become(p, [Goto(r, "c_best") EXCEPT !.made = a])
     /\ UNCHANGED <<users, recipes, nextRecipeId>>

\* prisma.recipe.update({ data: { bestAttemptId: bestAttempt.id } })
CreateBest(p) ==
  LET r == proc[p]
  IN /\ r.pc = "c_best"
     /\ IF r.id \notin DOMAIN recipes
        THEN /\ Become(p, Reply(r, 500, <<"database">>, <<>>))
             /\ UNCHANGED recipes
        ELSE /\ recipes' = [recipes EXCEPT
                             ![r.id] = Renewed([@ EXCEPT !.bestAttemptId = r.made])]
             /\ Become(p, Goto(r, "c_fetch"))
     /\ UNCHANGED <<users, attempts, images,
                    nextRecipeId, nextAttemptId>>

\* prisma.recipe.findUnique of the updated recipe, and the 201 response
CreateFetch(p) ==
  LET r == proc[p]
  IN /\ r.pc = "c_fetch"
     /\ Become(p,
          IF r.id \notin DOMAIN recipes
          THEN Reply(r, 500, <<"database">>, <<>>)
          ELSE Reply(r, 201, <<>>,
                     recipeWithBest(Transformed(recipes, attempts, images, r.id))))
     /\ UNCHANGED <<users, recipes, attempts, images,
                    nextRecipeId, nextAttemptId>>

\* ------------------------------------------------------------------ PUT /api/recipes/:id
NotOwnerNullOnly(recipe, user) == recipe.authorId = NoId
\* the owner check of PUT, PATCH and DELETE
NotOwner(recipe, user) == recipe.authorId = NoId \/ recipe.authorId # user

\* requireAuth; findUnique, the owner check and the validation
PutFind(p, u, id, pl) ==
  LET r == Request("put", "u_delimg", u, id, NoId, pl)
      recipe == FindRecipe(id)
      errors == UpdateErrors(pl)
  IN /\ Free(p)
     /\ Become(p,
          IF u = NoId THEN Reply(r, 401, <<"auth">>, <<>>)
          ELSE IF recipe.id = NoId THEN Reply(r, 404, <<"id">>, <<>>)
          ELSE IF NotOwner(recipe, r.user) THEN Reply(r, 403, <<"auth">>, <<>>)
          ELSE IF errors # <<>> THEN Reply(r, 400, errors, <<>>)
          ELSE [r EXCEPT !.recipe = recipe])
     /\ UNCHANGED <<users, recipes, attempts, images,
                    nextRecipeId, nextAttemptId>>

DeleteRecipeImagesKeepsAll(imgs, id) == imgs

\* prisma.image.deleteMany({ where: { recipeId: id } })
DeleteRecipeImages(imgs, id) == SelectSeq(imgs, LAMBDA i : i.recipeId # id)

PutDeleteImages(p) ==
  LET r == proc[p]
  IN /\ r.pc = "u_delimg"
     /\ images' = DeleteRecipeImages(images, r.id)
     /\ Become(p, Goto(r, "u_update"))
     /\ UNCHANGED <<users, recipes, attempts,
                    nextRecipeId, nextAttemptId>>

\* prisma.recipe.update with the nested image create, and the 200 response
PutUpdate(p) ==
  LET r == proc[p]
      pl == r.payload
      recs == [recipes EXCEPT ![r.id] =
                 Renewed([@ EXCEPT
                    !.title = IF pl.title.t # "undefined" THEN Trim(pl.title.v)
                              ELSE r.recipe.title,
                    !.body = IF pl.body.t # "undefined" THEN pl.body.v
                             ELSE r.recipe.body,
                    !.feedback = IF pl.feedback.t # "undefined" THEN pl.feedback.v
                                 ELSE r.recipe.feedback,
                    !.meta = IF pl.meta.t # "undefined" THEN pl.meta.v
                             ELSE r.recipe.meta])]
      imgs == images \o ImageRows(ensureArray(pl.images), r.id, NoId)
  IN /\ r.pc = "u_update"
     /\ IF r.id \notin DOMAIN recipes
        THEN /\ Become(p, Reply(r, 500, <<"database">>, <<>>))
             /\ UNCHANGED <<recipes, images>>
        ELSE /\ recipes' = recs
             /\ images' = imgs
             /\ Become(p,
                  Reply(r, 200, <<>>,
                        recipeWithBest(Transformed(recs, attempts, imgs, r.id))))
     /\ UNCHANGED <<users, attempts,
                    nextRecipeId, nextAttemptId>>

\* ------------------------------------------------------------------ PATCH /api/recipes/:id
PatchValidatedIgnoresErrors(r, errors) ==
  IF r.payload.images.t # "undefined" THEN Goto(r, "h_delimg") ELSE Goto(r, "h_update")

\* after validation: 400, or on to the image replacement or the update
PatchValidated(r, errors) ==
  IF errors # <<>> THEN Reply(r, 400, errors, <<>>)
  ELSE IF r.payload.images.t # "undefined" THEN Goto(r, "h_delimg")
  ELSE Goto(r, "h_update")

\* requireAuth; findUnique, the owner check and the validation up to the attempt lookup
PatchFind(p, u, id, pl) ==
  LET r == Request("patch", "h_att", u, id, NoId, pl)
      best == pl.bestAttemptId
      recipe == FindRecipe(id)
      errors == UpdateErrors(pl)
  IN /\ Free(p)
     /\ Become(p,
          IF u = NoId THEN Reply(r, 401, <<"auth">>, <<>>)
          ELSE IF recipe.id = NoId THEN Reply(r, 404, <<"id">>, <<>>)
          ELSE IF NotOwner(recipe, r.user) THEN Reply(r, 403, <<"auth">>, <<>>)
          ELSE IF best.t \in {"undefined", "null"}
               THEN PatchValidated([r EXCEPT !.recipe = recipe], errors)
          ELSE IF ~isNonEmptyString(best)
               THEN PatchValidated([r EXCEPT !.recipe = recipe],
                                   errors \o <<"bestAttemptId">>)
          ELSE [r EXCEPT !.recipe = recipe])
     /\ UNCHANGED <<users, recipes, attempts, images,
                    nextRecipeId, nextAttemptId>>

BadAttemptIgnoresRecipe(found, id) == found.id = NoId
BadAttemptIgnoresMissing(found, id) == found.id # NoId /\ found.recipeId # id

\* the attempt named as best must exist and belong to the recipe
BadAttempt(found, id) == found.id = NoId \/ found.recipeId # id

\* prisma.attempt.findUnique({ where: { id: payload.bestAttemptId } })
PatchAttempt(p) ==
  LET r == proc[p]
      found == FindAttempt(IdOf(r.payload.bestAttemptId))
      errors == UpdateErrors(r.payload)
                \o Err(BadAttempt(found, r.id), "bestAttemptId")
  IN /\ r.pc = "h_att"
     /\ Become(p, PatchValidated(r, errors))
     /\ UNCHANGED <<users, recipes, attempts, images,
                    nextRecipeId, nextAttemptId>>

PatchDeleteImages(p) ==
  LET r == proc[p]
  IN /\ r.pc = "h_delimg"
     /\ images' = DeleteRecipeImages(images, r.id)
     /\ Become(p, Goto(r, "h_update"))
     /\ UNCHANGED <<users, recipes, attempts,
                    nextRecipeId, nextAttemptId>>

\* the payload has a key of a column of the recipe, so that updateData is not empty
HasUpdateData(pl) ==
  \E k \in {"title", "body", "feedback", "meta", "bestAttemptId"} : pl[k].t # "undefined"

updateDataAllKeys(row, pl) ==
  Renewed([row EXCEPT
     !.title = IF pl.title.t # "undefined" THEN Trim(pl.title.v) ELSE @,
     !.body = IF pl.body.t # "undefined" THEN pl.body.v ELSE @,
     !.feedback = IF pl.feedback.t # "undefined" THEN pl.feedback.v ELSE @,
     !.meta = IF pl.meta.t # "undefined" THEN pl.meta.v ELSE @,
     !.bestAttemptId = IdOf(pl.bestAttemptId)])

\* updateData: only the keys present in the payload; Prisma renews updatedAt with
\* them, and writes no column when updateData is empty
updateData(row, pl) ==
  LET data == [row EXCEPT
                 !.title = IF pl.title.t # "undefined" THEN Trim(pl.title.v) ELSE @,
                 !.body = IF pl.body.t # "undefined" THEN pl.body.v ELSE @,
                 !.feedback = IF pl.feedback.t # "undefined" THEN pl.feedback.v ELSE @,
                 !.meta = IF pl.meta.t # "undefined" THEN pl.meta.v ELSE @,
                 !.bestAttemptId = IF pl.bestAttemptId.t # "undefined"
                                   THEN IdOf(pl.bestAttemptId) ELSE @]
  IN IF HasUpdateData(pl) THEN Renewed(data) ELSE data

\* prisma.recipe.update with updateData and the images given, then 200
PatchUpdate(p) ==
  LET r == proc[p]
      pl == r.payload
      recs == [recipes EXCEPT ![r.id] = updateData(@, pl)]
      imgs == IF pl.images.t # "undefined"
              THEN images \o ImageRows(ensureArray(pl.images), r.id, NoId)
              ELSE images
  IN /\ r.pc = "h_update"
     /\ IF r.id \notin DOMAIN recipes
        THEN /\ Become(p, Reply(r, 500, <<"database">>, <<>>))
             /\ UNCHANGED <<recipes, images>>
        ELSE /\ recipes' = recs
             /\ images' = imgs
             /\ Become(p,
                  Reply(r, 200, <<>>,
                        recipeWithBest(Transformed(recs, attempts, imgs, r.id))))
     /\ UNCHANGED <<users, attempts,
                    nextRecipeId, nextAttemptId>>

\* ------------------------------------------------------------------ DELETE /api/recipes/:id
\* requireAuth; findUnique and the owner check
DeleteFind(p, u, id) ==
  LET r == Request("delete", "d_tx", u, id, NoId, EmptyPayload)
      recipe == FindRecipe(id)
  IN /\ Free(p)
     /\ Become(p,
          IF u = NoId THEN Reply(r, 401, <<"auth">>, <<>>)
          ELSE IF recipe.id = NoId THEN Reply(r, 404, <<"id">>, <<>>)
          ELSE IF NotOwner(recipe, r.user) THEN Reply(r, 403, <<"auth">>, <<>>)
          ELSE [r EXCEPT !.recipe = recipe])
     /\ UNCHANGED <<users, recipes, attempts, images,
                    nextRecipeId, nextAttemptId>>

ImagesAfterDeleteKeepsAttempts(imgs, attemptIds, id) ==
  SelectSeq(imgs, LAMBDA i : i.recipeId # id)

\* the images the transaction deletes: those of the attempts, then the recipe's own
ImagesAfterDelete(imgs, attemptIds, id) ==
  SelectSeq(imgs, LAMBDA i : i.attemptId \notin attemptIds /\ i.recipeId # id)

\* prisma.$transaction: attempts' images, attempts, recipe images, recipe; then 204
DeleteTx(p) ==
  LET r == proc[p]
      attemptIds == AttemptsOf(attempts, r.id)
  IN /\ r.pc = "d_tx"
     /\ IF r.id \notin DOMAIN recipes
        THEN /\ Become(p, Reply(r, 500, <<"database">>, <<>>))
             /\ UNCHANGED <<recipes, attempts, images>>
        ELSE /\ images' = ImagesAfterDelete(images, attemptIds, r.id)
             /\ attempts' = Without(attempts, attemptIds)
             /\ recipes' = Without(recipes, {r.id})
             /\ Become(p, Reply(r, 204, <<>>, <<>>))
     /\ UNCHANGED <<users, nextRecipeId, nextAttemptId>>

\* ------------------------------------------------------------------ POST /api/recipes/:id/attempts
\* the request and its findUnique of the recipe, then the validation
AttemptFind(p, id, pl) ==
  /\ Free(p)
  /\ LET r == Request("attempt", "a_create", NoId, id, NoId, pl)
         recipe == FindRecipe(id)
         errors == AttemptErrors(pl)
     IN IF recipe.id = NoId
        THEN Become(p, Reply(r, 404, <<"id">>, <<>>))
        ELSE IF errors # <<>>
        THEN Become(p, Reply(r, 400, errors, <<>>))
        ELSE Become(p, [r EXCEPT !.recipe = recipe])
  /\ UNCHANGED <<users, recipes, attempts, images,
                 nextRecipeId, nextAttemptId>>

\* prisma.attempt.create connected to the recipe, with its images; then 201
AttemptCreate(p) ==
  LET r == proc[p]
      pl == r.payload
      a == nextAttemptId
      row == [id |-> a, body |-> pl.body.v,
              feedback |-> IF isStringOrEmpty(pl.feedback) THEN pl.feedback.v ELSE <<>>,
              meta |-> IF isPlainObject(pl.meta) THEN pl.meta.v ELSE <<>>,
              recipeId |-> r.id, createdAt |-> a]
      atts == attempts @@ (a :> row)
      imgs == images \o ImageRows(ensureArray(pl.images), NoId, a)
  IN /\ r.pc = "a_create"
     /\ IF r.id \notin DOMAIN recipes
        THEN /\ Become(p, Reply(r, 500, <<"database">>, <<>>))
             /\ UNCHANGED <<attempts, images, nextAttemptId>>
        ELSE /\ attempts' = atts
             /\ images' = imgs
             /\ nextAttemptId' = a + 1
             /\ Become(p,
                  Reply([r EXCEPT !.made = a], 201, <<>>, AttemptView(atts, imgs, a)))
     /\ UNCHANGED <<users, recipes, nextRecipeId>>

\* ------------------------------------------------------------------ GET /api/recipes/:id/attempts
DescSeqOldestFirst(S) == AscSeq(S)

DescSeqNewestOnly(S) ==
  IF S = {} THEN <<>> ELSE <<CHOOSE x \in S : \A y \in S : y <= x>>

\* orderBy: { createdAt: "desc" } over rows whose createdAt grows with their id
RECURSIVE DescSeq(_)
DescSeq(S) ==
  IF S = {} THEN <<>>
  ELSE LET m == CHOOSE x \in S : \A y \in S : y <= x
       IN <<m>> \o DescSeq(S \ {m})

\* the request and its findUnique of the recipe
ListFind(p, id) ==
  /\ Free(p)
  /\ LET r == Request("attempts", "l_many", NoId, id, NoId, EmptyPayload)
         recipe == FindRecipe(id)
     IN Become(p,
          IF recipe.id = NoId THEN Reply(r, 404, <<"id">>, <<>>)
          ELSE [r EXCEPT !.recipe = recipe])
  /\ UNCHANGED <<users, recipes, attempts, images,
                 nextRecipeId, nextAttemptId>>

\* prisma.attempt.findMany({ where: { recipeId }, orderBy: { createdAt: "desc" } })
ListMany(p) ==
  LET r == proc[p]
      as == DescSeq(AttemptsOf(attempts, r.id))
      list == [i \in 1..Len(as) |-> AttemptView(attempts, images, as[i])]
  IN /\ r.pc = "l_many"
     /\ Become(p,
          Reply(r, 200, <<>>, [total |-> Len(list), items |-> list]))
     /\ UNCHANGED <<users, recipes, attempts, images,
                    nextRecipeId, nextAttemptId>>

\* ------------------------------------------------------------------ POST .../attempts/:attemptId/choose
\* the request and its findUnique of the recipe
ChooseFind(p, id, aid) ==
  /\ Free(p)
  /\ LET r == Request("choose", "b_att", NoId, id, aid, EmptyPayload)
         recipe == FindRecipe(id)
     IN Become(p,
          IF recipe.id = NoId THEN Reply(r, 404, <<"id">>, <<>>)
          ELSE [r EXCEPT !.recipe = recipe])
  /\ UNCHANGED <<users, recipes, attempts, images,
                 nextRecipeId, nextAttemptId>>

\* prisma.attempt.findUnique({ where: { id: attemptId } }) and the membership check
ChooseAttempt(p) ==
  LET r == proc[p]
      attempt == FindAttempt(r.aid)
  IN /\ r.pc = "b_att"
     /\ Become(p,
          IF BadAttempt(attempt, r.id) THEN Reply(r, 400, <<"attemptId">>, <<>>)
          ELSE Goto(r, "b_update"))
     /\ UNCHANGED <<users, recipes, attempts, images,
                    nextRecipeId, nextAttemptId>>

\* prisma.recipe.update({ data: { bestAttemptId: attemptId } }), then 200
ChooseUpdate(p) ==
  LET r == proc[p]
      recs == [recipes EXCEPT ![r.id] = Renewed([@ EXCEPT !.bestAttemptId = r.aid])]
  IN /\ r.pc = "b_update"
     /\ IF r.id \notin DOMAIN recipes
        THEN /\ Become(p, Reply(r, 500, <<"database">>, <<>>))
             /\ UNCHANGED recipes
        ELSE /\ recipes' = recs
             /\ Become(p,
                  Reply(r, 200, <<>>,
                        recipeWithBest(Transformed(recs, attempts, images, r.id))))
     /\ UNCHANGED <<users, attempts, images,
                    nextRecipeId, nextAttemptId>>

\* ------------------------------------------------------------------ GET /api/recipes/:id
GetRecipe(p, id) ==
  /\ Free(p)
  /\ LET r == Request("get", "done", NoId, id, NoId, EmptyPayload)
     IN Become(p,
          IF id \notin DOMAIN recipes THEN Reply(r, 404, <<"id">>, <<>>)
          ELSE Reply(r, 200, <<>>,
                     recipeWithBest(Transformed(recipes, attempts, images, id))))
  /\ UNCHANGED <<users, recipes, attempts, images,
                 nextRecipeId, nextAttemptId>>

\* ------------------------------------------------------------------ GET /api/recipes
Lower(ch) ==
  IF ch = "A" THEN "a" ELSE IF ch = "B" THEN "b" ELSE IF ch = "C" THEN "c" ELSE ch
toLowerCase(s) == [i \in 1..Len(s) |-> Lower(s[i])]
includes(s, q) ==
  \E i \in 1..(Len(s) + 1) :
     i + Len(q) - 1 <= Len(s) /\ SubSeq(s, i, i + Len(q) - 1) = q

\* the search filter over title, body and feedback
Matches(r, q) ==
  \/ r.title # <<>> /\ includes(toLowerCase(r.title), q)
  \/ r.body # <<>> /\ includes(toLowerCase(r.body), q)
  \/ r.feedback # <<>> /\ includes(toLowerCase(r.feedback), q)

Queries == {<<>>, <<"A">>}

findManyWhereAnyAuthor(recs, mine, u) == DOMAIN recs

\* the where of findMany: mine ? { authorId: req.session.userId } : undefined
findManyWhere(recs, mine, u) ==
  {id \in DOMAIN recs : mine => recs[id].authorId = u}

\* findMany ordered by createdAt desc, restricted to the session's user for ?mine=true
ListRecipes(p, u, mine, query) ==
  /\ Free(p)
  /\ LET r == [Request("list", "done", u, NoId, NoId, EmptyPayload)
                 EXCEPT !.mine = mine, !.q = query]
         q == toLowerCase(query)
         found == findManyWhere(recipes, mine, u)
         ids == DescSeq(found)
         list == [i \in 1..Len(ids) |-> Transformed(recipes, attempts, images, ids[i])]
         kept == IF q # <<>> THEN SelectSeq(list, LAMBDA x : Matches(x, q)) ELSE list
         items == [i \in 1..Len(kept) |-> recipeWithBest(kept[i])]
     IN Become(p,
          IF mine /\ u = NoId THEN Reply(r, 401, <<"auth">>, <<>>)
          ELSE Reply(r, 200, <<>>, [total |-> Len(items), items |-> items]))
  /\ UNCHANGED <<users, recipes, attempts, images,
                 nextRecipeId, nextAttemptId>>

\* ------------------------------------------------------------------ auth
\* the user id a request's session is bound to: none, or a registered user (a
\* session outlives its user when the account is deleted from another session)
Sessions == {NoId} \cup UserIds

\* the foreign key Recipe_authorId_fkey: ON DELETE SET NULL
AuthorSetNull(recs, u) ==
  [id \in DOMAIN recs |->
     IF recs[id].authorId = u THEN [recs[id] EXCEPT !.authorId = NoId] ELSE recs[id]]

\* DELETE /api/auth/me: requireAuth, then prisma.user.delete
DeleteAccount(u) ==
  LET r == Request("deleteAccount", "done", u, NoId, NoId, EmptyPayload)
  IN /\ started < MaxRequests
     /\ started' = started + 1
     /\ IF u = NoId
        THEN last' = Reply(r, 401, <<"auth">>, <<>>) /\ UNCHANGED <<users, recipes>>
        ELSE IF u \notin users
        THEN last' = Reply(r, 500, <<"database">>, <<>>) /\ UNCHANGED <<users, recipes>>
        ELSE /\ users' = users \ {u}
             /\ recipes' = AuthorSetNull(recipes, u)
             /\ last' = Reply(r, 204, <<>>, <<>>)
     /\ accounts' = Without(accounts, {u})
     /\ answer' = NoAuth
     /\ UNCHANGED <<attempts, images, nextRecipeId, nextAttemptId, proc>>
     /\ UNCHANGED <<nextUserId, auth>>
     /\ UNCHANGED limiterVars
     /\ UNCHANGED frontVars

\* ------------------------------------------------------------------ /api/auth
Emails ==
  { Undef, Str(<<" ">>), Str(<<"a">>), Str(<<"A">>), Str(<<"a", " ">>),
    Str(<<"c">>), Str(<<"C">>), Str(<<"c", "@">>) }

\* a password of six characters, the shortest change-password accepts
LongPassword == <<"q", "q", "q", "q", "q", "q">>

Passwords == {Undef, Str(<<"p">>), Str(<<"q">>), Str(LongPassword)}

buildError(field, message) == [field |-> field, message |-> message]

\* prisma.user.findUnique({ where: { email } }): the row with exactly this email
findUserByEmail(accs, email) ==
  IF \E u \in DOMAIN accs : accs[u].email = email
  THEN CHOOSE u \in DOMAIN accs : accs[u].email = email
  ELSE NoId

\* the row of user u as a query returns it
Row(accs, u) ==
  [id |-> u, email |-> accs[u].email, passwordHash |-> accs[u].passwordHash]

toPublicUser(user) == [id |-> user.id, email |-> user.email]

\* the required-field checks of register and login
CredentialErrors(em, pw) ==
  (IF ~isNonEmptyString(em) THEN <<buildError("email", "email is required")>> ELSE <<>>)
  \o (IF ~isNonEmptyString(pw) THEN <<buildError("password", "password is required")>>
      ELSE <<>>)

\* the user ids a session of an auth request can be bound to: none, or any user
\* registered so far (a session outlives its user's row)
AuthSessions == {NoId} \cup (1..(nextUserId - 1))

AuthFree(p) ==
  /\ started < MaxRequests
  /\ auth[p].pc = "idle"
  /\ \A q \in Procs : auth[q].pc = "idle" => q = p \/ p = "p1"

AuthRequest(kind, pc, em, pw) ==
  [NoAuth EXCEPT !.kind = kind, !.pc = pc, !.email = em, !.password = pw]

AuthBecome(p, r) ==
  /\ IF r.pc = "done"
     THEN auth' = [auth EXCEPT ![p] = NoAuth] /\ answer' = r
     ELSE auth' = [auth EXCEPT ![p] = r] /\ answer' = NoAuth
  /\ started' = IF auth[p].pc = "idle" THEN started + 1 ELSE started
  /\ last' = Idle
  /\ UNCHANGED <<recipes, attempts, images, nextRecipeId, nextAttemptId, proc>>
  /\ UNCHANGED limiterVars
  /\ UNCHANGED frontVars

NormalEmailUntrimmed(email) == toLowerCase(email)

\* email.trim().toLowerCase(), as register and the profile update store it
NormalEmail(email) == toLowerCase(Trim(email))

\* POST /api/auth/register: the field checks and findUserByEmail(email)
RegisterFind(p, em, pw) ==
  LET r == AuthRequest("register", "r_hash", em, pw)
      errors == CredentialErrors(em, pw)
  IN /\ AuthFree(p)
     /\ AuthBecome(p,
          IF errors # <<>> THEN Reply(r, 400, errors, <<>>)
          ELSE IF findUserByEmail(accounts, em.v) # NoId
          THEN Reply(r, 409, <<buildError("email", "email already registered")>>, <<>>)
          ELSE r)
     /\ UNCHANGED <<users, accounts, nextUserId>>

\* POST /api/auth/register: bcrypt.hash(password, 10) settles
RegisterHash(p) ==
  LET r == auth[p]
  IN /\ r.pc = "r_hash"
     /\ AuthBecome(p, [r EXCEPT !.pc = "r_create", !.hash = Hash(r.password.v)])
     /\ UNCHANGED <<users, accounts, nextUserId>>

\* POST /api/auth/register: prisma.user.create under the unique index
\* User_email_key, then 201
RegisterCreate(p) ==
  LET r == auth[p]
      u == nextUserId
      email == NormalEmail(r.email.v)
      accs == accounts @@ (u :> [email |-> email, passwordHash |-> r.hash])
  IN /\ r.pc = "r_create"
     /\ IF findUserByEmail(accounts, email) # NoId
        THEN /\ AuthBecome(p,
                  Reply(r, 500, <<buildError("database", "Failed to register")>>, <<>>))
             /\ UNCHANGED <<users, accounts, nextUserId>>
        ELSE /\ accounts' = accs
             /\ users' = users \cup {u}
             /\ nextUserId' = u + 1
             /\ AuthBecome(p,
                  Reply([r EXCEPT !.made = u, !.user = u], 201, <<>>,
                        toPublicUser(Row(accs, u))))

\* the 401 of a login whose email names no user
UnknownEmail == Resp(401, <<buildError("email", "invalid credentials")>>, <<>>)

\* the 401 of a login whose password does not match the hash
WrongPassword == Resp(401, <<buildError("password", "invalid credentials")>>, <<>>)

\* POST /api/auth/login: the field checks and
\* findUserByEmail(email.trim().toLowerCase())
LoginFind(p, em, pw) ==
  LET r == AuthRequest("login", "l_compare", em, pw)
      errors == CredentialErrors(em, pw)
      u == findUserByEmail(accounts, toLowerCase(Trim(em.v)))
  IN /\ AuthFree(p)
     /\ AuthBecome(p,
          IF errors # <<>> THEN Reply(r, 400, errors, <<>>)
          ELSE IF u = NoId THEN [r EXCEPT !.pc = "done", !.resp = UnknownEmail]
          ELSE [r EXCEPT !.row = Row(accounts, u)])
     /\ UNCHANGED <<users, accounts, nextUserId>>

\* POST /api/auth/login: bcrypt.compare(password, user.passwordHash) settles, with
\* the row the lookup returned; on success the session is bound to the user
LoginCompare(p) ==
  LET r == auth[p]
  IN /\ r.pc = "l_compare"
     /\ AuthBecome(p,
          IF ~Compare(r.password.v, r.row.passwordHash)
          THEN [r EXCEPT !.pc = "done", !.resp = WrongPassword]
          ELSE Reply([r EXCEPT !.user = r.row.id], 200, <<>>, toPublicUser(r.row)))
     /\ UNCHANGED <<users, accounts, nextUserId>>

\* the emails of profile updates: none, one without "@", and spellings of "c@"
ProfileEmails ==
  { Undef, Str(<<"a">>), Str(<<"c", "@">>), Str(<<"C", "@">>), Str(<<"c", "@", " ">>) }

\* the names of profile updates: none, a string, null and a number
ProfileNames == {Undef, Str(<<"n">>), JNull, Num}

\* the checks of PUT /api/auth/me on the email and on the name
ProfileErrors(em, name) ==
  (IF em.t # "undefined" /\ (~isNonEmptyString(em) \/ ~includes(em.v, <<"@">>))
   THEN <<buildError("email", "valid email is required")>>
   ELSE <<>>)
  \o (IF name.t # "undefined" /\ ~isStringOrEmpty(name)
      THEN <<buildError("name", "name must be a string")>>
      ELSE <<>>)

\* PUT /api/auth/me: requireAuth, the field checks, and findUserByEmail(email)
\* when an email is given; without one the handler goes on to its update, which
\* then changes no email
UpdateMeFind(p, u, em, name) ==
  LET r == [AuthRequest("updateMe", "m_update", em, Undef) EXCEPT !.user = u]
      errors == ProfileErrors(em, name)
      existing == findUserByEmail(accounts, em.v)
  IN /\ AuthFree(p)
     /\ AuthBecome(p,
          IF u = NoId
          THEN Reply(r, 401, <<buildError("auth", "authentication required")>>, <<>>)
          ELSE IF errors # <<>> THEN Reply(r, 400, errors, <<>>)
          ELSE IF em.t = "undefined"
          THEN IF u \in DOMAIN accounts
               THEN Reply(r, 200, <<>>, toPublicUser(Row(accounts, u)))
               ELSE Reply(r, 500, <<buildError("database", "Failed to update profile")>>,
                          <<>>)
          ELSE IF existing # NoId /\ existing # u
          THEN Reply(r, 409, <<buildError("email", "email already registered")>>, <<>>)
          ELSE r)
     /\ UNCHANGED <<users, accounts, nextUserId>>

\* PUT /api/auth/me: prisma.user.update under the unique index User_email_key
UpdateMeWrite(p) ==
  LET r == auth[p]
      email == NormalEmail(r.email.v)
      taken == findUserByEmail(accounts, email)
      accs == [accounts EXCEPT ![r.user].email = email]
  IN /\ r.pc = "m_update"
     /\ IF r.user \notin DOMAIN accounts \/ (taken # NoId /\ taken # r.user)
        THEN /\ AuthBecome(p,
                  Reply(r, 500, <<buildError("database", "Failed to update profile")>>,
                        <<>>))
             /\ UNCHANGED accounts
        ELSE /\ accounts' = accs
             /\ AuthBecome(p, Reply(r, 200, <<>>, toPublicUser(Row(accs, r.user))))
     /\ UNCHANGED <<users, nextUserId>>

\* the current and new passwords of change-password requests: "q" is shorter
\* than the six characters a new password needs, and so is an array of one
CurrentPasswords == {Undef, Str(<<"p">>), Str(<<"q">>)}
NewPasswords == {Undef, Str(<<"q">>), Str(LongPassword), Arr(<<"u1">>)}

\* x && x.length < 6: strings and arrays have a length, a number has none
Short(x) == Truthy(x) /\ x.t \in {"string", "array"} /\ Len(x.v) < 6

\* the field checks of POST /api/auth/change-password
PasswordErrors(cur, new) ==
  (IF ~isNonEmptyString(cur)
   THEN <<buildError("currentPassword", "current password is required")>> ELSE <<>>)
  \o (IF ~isNonEmptyString(new)
      THEN <<buildError("newPassword", "new password is required")>> ELSE <<>>)
  \o (IF Short(new)
      THEN <<buildError("newPassword", "password must be at least 6 characters")>>
      ELSE <<>>)

\* POST /api/auth/change-password: requireAuth, the field checks, and
\* prisma.user.findUnique by the session's user id
ChangePasswordFind(p, u, cur, new) ==
  LET r == [AuthRequest("changePassword", "c_compare", Undef, cur)
              EXCEPT !.user = u, !.newPassword = new]
      errors == PasswordErrors(cur, new)
  IN /\ AuthFree(p)
     /\ AuthBecome(p,
          IF u = NoId
          THEN Reply(r, 401, <<buildError("auth", "authentication required")>>, <<>>)
          ELSE IF errors # <<>> THEN Reply(r, 400, errors, <<>>)
          ELSE IF u \notin DOMAIN accounts
          THEN Reply(r, 401, <<buildError("auth", "user not found")>>, <<>>)
          ELSE [r EXCEPT !.row = Row(accounts, u)])
     /\ UNCHANGED <<users, accounts, nextUserId>>

\* POST /api/auth/change-password: bcrypt.compare(currentPassword,
\* user.passwordHash) settles, with the row the lookup returned
ChangePasswordCompare(p) ==
  LET r == auth[p]
  IN /\ r.pc = "c_compare"
     /\ AuthBecome(p,
          IF ~Compare(r.password.v, r.row.passwordHash)
          THEN Reply(r, 401,
                     <<buildError("currentPassword", "current password is incorrect")>>,
                     <<>>)
          ELSE [r EXCEPT !.pc = "c_hash"])
     /\ UNCHANGED <<users, accounts, nextUserId>>

\* POST /api/auth/change-password: bcrypt.hash(newPassword, 10) settles
ChangePasswordHash(p) ==
  LET r == auth[p]
  IN /\ r.pc = "c_hash"
     /\ AuthBecome(p, [r EXCEPT !.pc = "c_update", !.hash = Hash(r.newPassword.v)])
     /\ UNCHANGED <<users, accounts, nextUserId>>

\* POST /api/auth/change-password: prisma.user.update of the passwordHash by the
\* session's user id, which throws when the row is gone
ChangePasswordUpdate(p) ==
  LET r == auth[p]
  IN /\ r.pc = "c_update"
     /\ IF r.user \notin DOMAIN accounts
        THEN /\ AuthBecome(p,
                  Reply(r, 500, <<buildError("database", "Failed to change password")>>,
                        <<>>))
             /\ UNCHANGED accounts
        ELSE /\ accounts' = [accounts EXCEPT ![r.user].passwordHash = r.hash]
             /\ AuthBecome(p,
                  Reply(r, 200, <<>>, [message |-> "Password updated successfully"]))
     /\ UNCHANGED <<users, nextUserId>>

\* ------------------------------------------------------------------ specification
Step(p) ==
  \/ \E u \in Sessions, pl \in CreatePayloads : CreateRecipe(p, u, pl)
  \/ CreateAttempt(p)
  \/ CreateBest(p)
  \/ CreateFetch(p)
  \/ \E u \in Sessions, id \in RecipeIds, pl \in PutPayloads : PutFind(p, u, id, pl)
  \/ PutDeleteImages(p)
  \/ PutUpdate(p)
  \/ \E u \in Sessions, id \in RecipeIds, pl \in PatchPayloads : PatchFind(p, u, id, pl)
  \/ PatchAttempt(p)
  \/ PatchDeleteImages(p)
  \/ PatchUpdate(p)
  \/ \E u \in Sessions, id \in RecipeIds : DeleteFind(p, u, id)
  \/ DeleteTx(p)
  \/ \E id \in RecipeIds, pl \in AttemptPayloads : AttemptFind(p, id, pl)
  \/ AttemptCreate(p)
  \/ \E id \in RecipeIds : ListFind(p, id)
  \/ ListMany(p)
  \/ \E id \in RecipeIds, aid \in AttemptIds : ChooseFind(p, id, aid)
  \/ ChooseAttempt(p)
  \/ ChooseUpdate(p)
  \/ \E id \in RecipeIds : GetRecipe(p, id)
  \/ \E u \in Sessions, mine \in BOOLEAN, q \in Queries : ListRecipes(p, u, mine, q)

Auth == \E u \in Sessions : DeleteAccount(u)

Next == (\E p \in Procs : Step(p)) \/ Auth

Spec == Init /\ [][Next]_vars

\* one request at a time: a handler runs to its response before the next starts
Alone(p) == \A q \in Procs \ {p} : proc[q].pc = "idle"

NextSerial ==
  \/ \E p \in Procs : Alone(p) /\ Step(p)
  \/ (\A q \in Procs : proc[q].pc = "idle") /\ Auth

SpecSerial == Init /\ [][NextSerial]_vars

AuthStep(p) ==
  \/ \E em \in Emails, pw \in Passwords : RegisterFind(p, em, pw)
  \/ RegisterHash(p)
  \/ RegisterCreate(p)
  \/ \E em \in Emails, pw \in Passwords : LoginFind(p, em, pw)
  \/ LoginCompare(p)
  \/ \E u \in AuthSessions, em \in ProfileEmails, name \in ProfileNames :
        UpdateMeFind(p, u, em, name)
  \/ UpdateMeWrite(p)
  \/ \E u \in AuthSessions, cur \in CurrentPasswords, new \in NewPasswords :
        ChangePasswordFind(p, u, cur, new)
  \/ ChangePasswordCompare(p)
  \/ ChangePasswordHash(p)
  \/ ChangePasswordUpdate(p)

NextAuth == (\E p \in Procs : AuthStep(p)) \/ Auth

\* the auth routes alone
SpecAuth == Init /\ [][NextAuth]_vars

\* the store after user 1's POST /api/recipes { title: "a", body: "b", images: ["u1"] }
InitCreated ==
  /\ users = UserIds
  /\ recipes = (1 :> [id |-> 1, title |-> <<"a">>, body |-> <<"b">>, feedback |-> <<>>,
                      meta |-> <<>>, bestAttemptId |-> 1, authorId |-> 1, createdAt |-> 1,
                      updatedAt |-> 1])
  /\ attempts = (1 :> [id |-> 1, body |-> <<"b">>, feedback |-> <<>>, meta |-> <<>>,
                       recipeId |-> 1, createdAt |-> 1])
  /\ images = ImageRows(<<"u1">>, 1, NoId) \o ImageRows(<<"u1">>, NoId, 1)
  /\ nextRecipeId = 2
  /\ nextAttemptId = 2
  /\ proc = [p \in Procs |-> Idle]
  /\ last = Idle
  /\ started = 0
  /\ accounts = InitAccounts
  /\ nextUserId = Cardinality(UserIds) + 1
  /\ auth = [p \in Procs |-> NoAuth]
  /\ answer = NoAuth
  /\ limiterHits = NoHits
  /\ route = NoRoute
  /\ sent = NoSent
  /\ reply = NoReply
  /\ expanded = NoExpanded
  /\ attemptForms = NoForms
  /\ calls = NoCalls
  /\ rendered = NoRendered

BestStep(p) ==
  \/ \E id \in RecipeIds, pl \in AttemptPayloads : AttemptFind(p, id, pl)
  \/ AttemptCreate(p)
  \/ \E id \in RecipeIds, aid \in AttemptIds : ChooseFind(p, id, aid)
  \/ ChooseAttempt(p)
  \/ ChooseUpdate(p)
  \/ \E u \in Sessions, id \in RecipeIds, pl \in PatchPayloads : PatchFind(p, u, id, pl)
  \/ PatchAttempt(p)
  \/ PatchDeleteImages(p)
  \/ PatchUpdate(p)
  \/ \E id \in RecipeIds : ListFind(p, id)
  \/ ListMany(p)
  \/ \E id \in RecipeIds : GetRecipe(p, id)

NextBest == \E p \in Procs : BestStep(p)

\* attempts added to, chosen for and read from a recipe that exists
SpecBest == InitCreated /\ [][NextBest]_vars

\* ------------------------------------------------------------------ rate limits
\* the routes whose chain starts with requireAuth
RequireAuthRoutes ==
  {"updateMe", "changePassword", "deleteMe", "putRecipe", "patchRecipe", "deleteRecipe"}

\* One request of caller c to the route, with or without a signed-in session.
\* requireAuth, first in the chain of its routes, answers a request without a
\* session 401 before any limiter sees it.  A limiter in the route's chain counts
\* the request under the caller's key and answers 429 with its message once the
\* count has passed its max; a request neither stops goes on to the handler.
Arrive(c, session) ==
  LET lim == LimiterOf(route)
      passed == [caller |-> c, session |-> session, status |-> 200, field |-> <<>>,
                 handled |-> TRUE]
  IN /\ sent[c] < MaxSent
     /\ IF route \in RequireAuthRoutes /\ ~session
        THEN /\ reply' = [caller |-> c, session |-> session, status |-> 401,
                          field |-> <<"auth">>, handled |-> FALSE]
             /\ UNCHANGED <<limiterHits, sent>>
        ELSE IF lim = NoLimiter
        THEN /\ reply' = passed
             /\ sent' = [sent EXCEPT ![c] = @ + 1]
             /\ UNCHANGED limiterHits
        ELSE /\ limiterHits' = [limiterHits EXCEPT ![lim][c] = @ + 1]
             /\ sent' = [sent EXCEPT ![c] = @ + 1]
             /\ reply' = IF limiterHits[lim][c] + 1 > LimiterMax(lim)
                         THEN [caller |-> c, session |-> session, status |-> 429,
                               field |-> <<"rateLimit">>, handled |-> FALSE]
                         ELSE passed
     /\ UNCHANGED <<users, recipes, attempts, images, nextRecipeId, nextAttemptId,
                    proc, last, started, accounts, nextUserId, auth, answer, route>>
     /\ UNCHANGED frontVars

\* windowMs of both limiters has passed: their stores start again from nothing
WindowsElapse ==
  /\ \E c \in Callers : sent[c] > 0
  /\ limiterHits' = NoHits
  /\ sent' = NoSent
  /\ reply' = NoReply
  /\ UNCHANGED <<users, recipes, attempts, images, nextRecipeId, nextAttemptId,
                 proc, last, started, accounts, nextUserId, auth, answer, route>>
  /\ UNCHANGED frontVars

InitLimit ==
  /\ users = UserIds
  /\ recipes = <<>>
  /\ attempts = <<>>
  /\ images = <<>>
  /\ nextRecipeId = 1
  /\ nextAttemptId = 1
  /\ proc = [p \in Procs |-> Idle]
  /\ last = Idle
  /\ started = 0
  /\ accounts = InitAccounts
  /\ nextUserId = Cardinality(UserIds) + 1
  /\ auth = [p \in Procs |-> NoAuth]
  /\ answer = NoAuth
  /\ limiterHits = NoHits
  /\ route \in Routes
  /\ sent = NoSent
  /\ reply = NoReply
  /\ expanded = NoExpanded
  /\ attemptForms = NoForms
  /\ calls = NoCalls
  /\ rendered = NoRendered

NextLimit ==
  \/ \E c \in Callers, session \in BOOLEAN : Arrive(c, session)
  \/ WindowsElapse

\* callers sending request after request to one route
SpecLimit == InitLimit /\ [][NextLimit]_vars

\* ------------------------------------------------------------------ frontend App
\* how a fetch settles: a response with res.ok, a response without, or a rejection
Outcomes == {"ok", "http", "network"}

\* the App's handlers leave the server's state alone
FrontFrame ==
  /\ UNCHANGED <<users, recipes, attempts, images, nextRecipeId, nextAttemptId,
                 proc, last, started, accounts, nextUserId, auth, answer>>
  /\ UNCHANGED limiterVars

Running(k, fn, pc) == calls[k].fn = fn /\ calls[k].pc = pc

At(k, pc) == [calls EXCEPT ![k].pc = pc]

Finished(k) == [calls EXCEPT ![k] = NoCall]

\* prev[recipeId] || { open: true, loading: false, attempts: [] }
OrOpen(entry) ==
  IF entry.present THEN entry ELSE [NoEntry EXCEPT !.present = TRUE, !.open = TRUE]

\* { ...(prev[recipeId] || {}) }
OrEmpty(entry) == [entry EXCEPT !.present = TRUE]

\* the catch block of chooseBestAttempt
ChooseCaught(exp, rid) ==
  [exp EXCEPT ![rid] = [OrEmpty(@) EXCEPT !.choosing = NoId, !.choosingError = TRUE]]

\* the setExpanded after a refresh that returned the recipe
ChooseMarked(exp, rid) ==
  [exp EXCEPT ![rid] = [OrOpen(@) EXCEPT !.choosing = NoId, !.choosingError = FALSE]]

ChooseClearedKeepsFlag(exp, rid) == [exp EXCEPT ![rid] = OrEmpty(@)]

\* the setExpanded after a refresh that returned no recipe
ChooseCleared(exp, rid) == [exp EXCEPT ![rid] = [OrEmpty(@) EXCEPT !.choosing = NoId]]

\* React renders the App again: the handlers of the page now close over the
\* current expanded and attemptForms
Render ==
  /\ rendered # Closure(expanded, attemptForms)
  /\ rendered' = Closure(expanded, attemptForms)
  /\ UNCHANGED <<expanded, attemptForms, calls>>
  /\ FrontFrame

\* the entry fetchAttempts writes when called and again when its request has
\* settled, in the try block and in the catch block alike: open, with choosing
\* and choosingError null
Fetched(exp, rid) ==
  [exp EXCEPT ![rid] = [present |-> TRUE, open |-> TRUE, choosing |-> NoId,
                        choosingError |-> FALSE]]

\* fetchAttempts(recipeId) up to its first await
fetchAttempts(k, rid) ==
  /\ calls[k].fn = "none"
  /\ expanded' = Fetched(expanded, rid)
  /\ calls' = [calls EXCEPT ![k] = [NoCall EXCEPT !.fn = "attempts", !.pc = "attempts",
                                                 !.recipeId = rid]]
  /\ UNCHANGED <<attemptForms, rendered>>
  /\ FrontFrame

\* toggleExpand(recipeId): cur is the entry of the render the handler was made
\* in; an open panel is closed by writing cur back with open false, any other
\* is opened by fetchAttempts
toggleExpand(k, rid) ==
  LET cur == rendered.expanded[rid]
  IN IF cur.present /\ cur.open
     THEN /\ expanded' = [expanded EXCEPT ![rid] = [cur EXCEPT !.open = FALSE]]
          /\ UNCHANGED <<attemptForms, calls, rendered>>
          /\ FrontFrame
     ELSE fetchAttempts(k, rid)

\* the GET of the attempts settles
AttemptsSettles(k, out) ==
  /\ Running(k, "attempts", "attempts")
  /\ IF out = "network"
     THEN /\ expanded' = Fetched(expanded, calls[k].recipeId)
          /\ calls' = Finished(k)
     ELSE /\ calls' = At(k, IF out = "ok" THEN "attempts_json" ELSE "attempts_error")
          /\ UNCHANGED expanded
  /\ UNCHANGED <<attemptForms, rendered>>
  /\ FrontFrame

\* the body of the attempts settles: the list is stored; an error body is thrown
\* as an Error, and a body that does not parse or is null throws as well
AttemptsJson(k) ==
  /\ \/ Running(k, "attempts", "attempts_json")
     \/ Running(k, "attempts", "attempts_error")
  /\ expanded' = Fetched(expanded, calls[k].recipeId)
  /\ calls' = Finished(k)
  /\ UNCHANGED <<attemptForms, rendered>>
  /\ FrontFrame

\* chooseBestAttempt(recipeId, attemptId) up to its first await: the choosing flag
\* is set and the choose request is sent
chooseBestAttempt(k, rid, aid) ==
  /\ calls[k].fn = "none"
  /\ expanded' = [expanded EXCEPT ![rid] =
                    [OrOpen(@) EXCEPT !.choosing = aid, !.choosingError = FALSE]]
  /\ calls' = [calls EXCEPT ![k] = [NoCall EXCEPT !.fn = "choose", !.pc = "choose",
                                                 !.recipeId = rid]]
  /\ UNCHANGED <<attemptForms, rendered>>
  /\ FrontFrame

\* the POST .../choose settles: on !res.ok the PATCH fallback is sent
ChooseSettles(k, out) ==
  /\ Running(k, "choose", "choose")
  /\ IF out = "network"
     THEN /\ expanded' = ChooseCaught(expanded, calls[k].recipeId)
          /\ calls' = Finished(k)
     ELSE /\ calls' = At(k, IF out = "ok" THEN "get" ELSE "patch")
          /\ UNCHANGED expanded
  /\ UNCHANGED <<attemptForms, rendered>>
  /\ FrontFrame

\* the PATCH fallback settles: on !res.ok the error body is read
PatchSettles(k, out) ==
  /\ Running(k, "choose", "patch")
  /\ IF out = "network"
     THEN /\ expanded' = ChooseCaught(expanded, calls[k].recipeId)
          /\ calls' = Finished(k)
     ELSE /\ calls' = At(k, IF out = "ok" THEN "get" ELSE "patch_json")
          /\ UNCHANGED expanded
  /\ UNCHANGED <<attemptForms, rendered>>
  /\ FrontFrame

\* res.json().catch(() => null) of the failed PATCH settles and the error is thrown
PatchJson(k) ==
  /\ Running(k, "choose", "patch_json")
  /\ expanded' = ChooseCaught(expanded, calls[k].recipeId)
  /\ calls' = Finished(k)
  /\ UNCHANGED <<attemptForms, rendered>>
  /\ FrontFrame

\* the GET of the recipe settles: on !res.ok the list is fetched instead
GetSettles(k, out) ==
  /\ Running(k, "choose", "get")
  /\ IF out = "network"
     THEN /\ expanded' = ChooseCaught(expanded, calls[k].recipeId)
          /\ calls' = Finished(k)
     ELSE /\ calls' = At(k, IF out = "ok" THEN "get_json" ELSE "list")
          /\ UNCHANGED expanded
  /\ UNCHANGED <<attemptForms, rendered>>
  /\ FrontFrame

\* the body of the GET: a recipe, or null when it does not parse
GetJson(k, body) ==
  /\ Running(k, "choose", "get_json")
  /\ expanded' = IF body = "recipe" THEN ChooseMarked(expanded, calls[k].recipeId)
                 ELSE ChooseCleared(expanded, calls[k].recipeId)
  /\ calls' = Finished(k)
  /\ UNCHANGED <<attemptForms, rendered>>
  /\ FrontFrame

\* the list request settles
ListSettles(k, out) ==
  /\ Running(k, "choose", "list")
  /\ IF out = "network"
     THEN /\ expanded' = ChooseCaught(expanded, calls[k].recipeId)
          /\ calls' = Finished(k)
     ELSE IF out = "http"
     THEN /\ expanded' = ChooseCleared(expanded, calls[k].recipeId)
          /\ calls' = Finished(k)
     ELSE /\ calls' = At(k, "list_json")
          /\ UNCHANGED expanded
  /\ UNCHANGED <<attemptForms, rendered>>
  /\ FrontFrame

\* the body of the list: with the recipe, without it, or null when it does not
\* parse (listBody.items then throws)
ListJson(k, body) ==
  /\ Running(k, "choose", "list_json")
  /\ expanded' = IF body = "found" THEN ChooseMarked(expanded, calls[k].recipeId)
                 ELSE IF body = "missing" THEN ChooseCleared(expanded, calls[k].recipeId)
                 ELSE ChooseCaught(expanded, calls[k].recipeId)
  /\ calls' = Finished(k)
  /\ UNCHANGED <<attemptForms, rendered>>
  /\ FrontFrame

\* what the user picks in the file input of an attempt form: nothing, a file
\* that is no image or is too large, or an image
Picks == {"none", "refused", "image"}

\* onAttemptFileSelected(recipeId, e) up to its first await: without a file, or
\* with one that is refused, the handler returns; with an image it starts
\* drawImageWithExifOrientation
onAttemptFileSelected(k, rid, pick) ==
  /\ calls[k].fn = "none"
  /\ calls' = IF pick = "image"
              THEN [calls EXCEPT ![k] = [NoCall EXCEPT !.fn = "file", !.pc = "draw",
                                                      !.recipeId = rid]]
              ELSE calls
  /\ UNCHANGED <<expanded, attemptForms, rendered>>
  /\ FrontFrame

\* the drawing settles: the file is stored in the form, or, when the drawing or
\* the cropping failed, the form's file is set to null
DrawSettles(k, drawn) ==
  /\ Running(k, "file", "draw")
  /\ attemptForms' = [attemptForms EXCEPT ![calls[k].recipeId].file = drawn]
  /\ calls' = Finished(k)
  /\ UNCHANGED <<expanded, rendered>>
  /\ FrontFrame

\* removeAttemptImage(recipeId)
removeAttemptImage(rid) ==
  /\ attemptForms' = [attemptForms EXCEPT ![rid].file = FALSE]
  /\ UNCHANGED <<expanded, calls, rendered>>
  /\ FrontFrame

\* setAttemptFormState(recipeId, { submitting: false, errors })
SubmitFailed(forms, rid) == [forms EXCEPT ![rid].submitting = FALSE]

\* submitAttempt(recipeId) up to its first await: form is the form of the render
\* the handler was made in; the upload when it has a file, the POST of the attempt
\* otherwise
submitAttempt(k, rid) ==
  LET form == rendered.attemptForms[rid]
  IN /\ calls[k].fn = "none"
     /\ attemptForms' = [attemptForms EXCEPT ![rid].submitting = TRUE]
     /\ calls' = [calls EXCEPT ![k] =
                    [NoCall EXCEPT !.fn = "submit", !.recipeId = rid,
                                   !.pc = IF form.file THEN "upload" ELSE "post"]]
     /\ UNCHANGED <<expanded, rendered>>
     /\ FrontFrame

\* uploadFileToServer: its fetch settles
UploadSettles(k, out) ==
  /\ Running(k, "submit", "upload")
  /\ IF out = "network"
     THEN /\ attemptForms' = SubmitFailed(attemptForms, calls[k].recipeId)
          /\ calls' = Finished(k)
     ELSE /\ calls' = [calls EXCEPT ![k].pc = "upload_json", ![k].ok = (out = "ok")]
          /\ UNCHANGED attemptForms
  /\ UNCHANGED <<expanded, rendered>>
  /\ FrontFrame

\* uploadFileToServer: its res.json() settles; without res.ok, without a url or
\* with a rejection the upload has failed
UploadJson(k, body) ==
  /\ Running(k, "submit", "upload_json")
  /\ IF calls[k].ok /\ body = "url"
     THEN /\ calls' = [calls EXCEPT ![k].pc = "post", ![k].ok = FALSE]
          /\ UNCHANGED attemptForms
     ELSE /\ attemptForms' = SubmitFailed(attemptForms, calls[k].recipeId)
          /\ calls' = Finished(k)
  /\ UNCHANGED <<expanded, rendered>>
  /\ FrontFrame

\* the POST of the attempt settles
PostSettles(k, out) ==
  /\ Running(k, "submit", "post")
  /\ IF out = "network"
     THEN /\ attemptForms' = SubmitFailed(attemptForms, calls[k].recipeId)
          /\ calls' = Finished(k)
     ELSE /\ calls' = [calls EXCEPT ![k].pc = "post_json", ![k].ok = (out = "ok")]
          /\ UNCHANGED attemptForms
  /\ UNCHANGED <<expanded, rendered>>
  /\ FrontFrame

\* res.json().catch(() => null) of the POST settles: the errors are shown, or the
\* attempt is added to the recipe's panel and the form is reset
PostJson(k) ==
  /\ Running(k, "submit", "post_json")
  /\ IF calls[k].ok
     THEN /\ expanded' = [expanded EXCEPT ![calls[k].recipeId] = OrOpen(@)]
          /\ attemptForms' = [attemptForms EXCEPT ![calls[k].recipeId] = NoForm]
     ELSE /\ attemptForms' = SubmitFailed(attemptForms, calls[k].recipeId)
          /\ UNCHANGED expanded
  /\ calls' = Finished(k)
  /\ UNCHANGED rendered
  /\ FrontFrame

\* deleteRecipe(recipeId) up to its first await
deleteRecipe(k, rid) ==
  /\ calls[k].fn = "none"
  /\ calls' = [calls EXCEPT ![k] = [NoCall EXCEPT !.fn = "delete", !.pc = "delete",
                                                 !.recipeId = rid]]
  /\ UNCHANGED <<expanded, attemptForms, rendered>>
  /\ FrontFrame

\* the DELETE settles: on res.ok the recipe's entry is removed from expanded; on
\* !res.ok the error body is read; a rejection is caught and shown
DeleteSettles(k, out) ==
  /\ Running(k, "delete", "delete")
  /\ IF out = "ok"
     THEN /\ expanded' = [expanded EXCEPT ![calls[k].recipeId] = NoEntry]
          /\ calls' = Finished(k)
     ELSE /\ calls' = IF out = "http" THEN At(k, "delete_json") ELSE Finished(k)
          /\ UNCHANGED expanded
  /\ UNCHANGED <<attemptForms, rendered>>
  /\ FrontFrame

\* res.json().catch(() => null) of the failed DELETE settles and the message is
\* shown
DeleteJson(k) ==
  /\ Running(k, "delete", "delete_json")
  /\ calls' = Finished(k)
  /\ UNCHANGED <<expanded, attemptForms, rendered>>
  /\ FrontFrame

\* the steps a running call takes when what it awaits settles
Continue(k) ==
  \/ \E out \in Outcomes : AttemptsSettles(k, out)
  \/ AttemptsJson(k)
  \/ \E out \in Outcomes : ChooseSettles(k, out)
  \/ \E out \in Outcomes : PatchSettles(k, out)
  \/ PatchJson(k)
  \/ \E out \in Outcomes : GetSettles(k, out)
  \/ \E body \in {"recipe", "null"} : GetJson(k, body)
  \/ \E out \in Outcomes : ListSettles(k, out)
  \/ \E body \in {"found", "missing", "null"} : ListJson(k, body)
  \/ \E drawn \in BOOLEAN : DrawSettles(k, drawn)
  \/ \E out \in Outcomes : UploadSettles(k, out)
  \/ \E body \in {"url", "nourl", "reject"} : UploadJson(k, body)
  \/ \E out \in Outcomes : PostSettles(k, out)
  \/ PostJson(k)
  \/ \E out \in Outcomes : DeleteSettles(k, out)
  \/ DeleteJson(k)

FrontStep(k) ==
  \/ \E rid \in FrontRecipes : toggleExpand(k, rid)
  \/ \E rid \in FrontRecipes, aid \in FrontAttempts : chooseBestAttempt(k, rid, aid)
  \/ \E rid \in FrontRecipes, pick \in Picks : onAttemptFileSelected(k, rid, pick)
  \/ \E rid \in FrontRecipes : removeAttemptImage(rid)
  \/ \E rid \in FrontRecipes : submitAttempt(k, rid)
  \/ \E rid \in FrontRecipes : deleteRecipe(k, rid)
  \/ Continue(k)

InitFront ==
  /\ users = UserIds
  /\ recipes = <<>>
  /\ attempts = <<>>
  /\ images = <<>>
  /\ nextRecipeId = 1
  /\ nextAttemptId = 1
  /\ proc = [p \in Procs |-> Idle]
  /\ last = Idle
  /\ started = 0
  /\ accounts = InitAccounts
  /\ nextUserId = Cardinality(UserIds) + 1
  /\ auth = [p \in Procs |-> NoAuth]
  /\ answer = NoAuth
  /\ limiterHits = NoHits
  /\ route = NoRoute
  /\ sent = NoSent
  /\ reply = NoReply
  /\ expanded = NoExpanded
  /\ attemptForms = NoForms
  /\ calls = NoCalls
  /\ rendered = NoRendered

NextFront == (\E k \in Tasks : FrontStep(k)) \/ Render

\* the handlers of the App, every awaited request settling at some time
SpecFront ==
  InitFront /\ [][NextFront]_vars /\ \A k \in Tasks : WF_vars(Continue(k))

\* ------------------------------------------------------------------ properties
Edits == {"put", "patch", "delete"}

\* C1: in every reachable state, whatever the operations and their interleaving,
\* a recipe's bestAttemptId is null or names an existing attempt whose recipeId
\* is that recipe's id.
C1_BestAttemptOfRecipe ==
  \A id \in DOMAIN recipes :
     LET b == recipes[id].bestAttemptId
     IN b # NoId => b \in DOMAIN attempts /\ attempts[b].recipeId = id

\* a PATCH has just set bestAttemptId to an attempt of the recipe while another
\* recipe has attempts of its own
C1_Witness ==
  /\ last.kind = "patch"
  /\ last.resp.status = 200
  /\ last.payload.bestAttemptId.t = "string"
  /\ recipes[last.id].bestAttemptId = IdOf(last.payload.bestAttemptId)
  /\ \E a \in DOMAIN attempts : attempts[a].recipeId # last.id

\* C2: no reader (get recipe, list recipes, list attempts) observes a recipe of
\* which some but not all of {recipe, attempts, images} have been removed: a
\* recipe a reader reports with a best attempt is reported with that attempt.
C2_DeleteAtomicToReaders ==
  /\ (last.kind = "get" /\ last.resp.status = 200 /\ last.resp.body.bestAttemptId # NoId)
        => last.resp.body.bestAttempt.id = last.resp.body.bestAttemptId
  /\ (last.kind = "list" /\ last.resp.status = 200)
        => \A i \in DOMAIN last.resp.body.items :
              LET x == last.resp.body.items[i]
              IN x.bestAttemptId # NoId => x.bestAttempt.id = x.bestAttemptId
  /\ (last.kind = "attempts" /\ last.resp.status = 200 /\ last.recipe.bestAttemptId # NoId)
        => \E i \in DOMAIN last.resp.body.items :
              last.resp.body.items[i].id = last.recipe.bestAttemptId

\* C3: once a DELETE of recipe r has answered 204, r is gone, no attempt has
\* recipeId r (none added by a concurrent add-attempt either), no image belongs to
\* r or to a former attempt of r, and GET r answers 404.
C3_DeletedLeavesNothing ==
  /\ (last.kind = "delete" /\ last.resp.status = 204) => last.id \notin DOMAIN recipes
  /\ \A id \in 1..(nextRecipeId - 1) :
        id \notin DOMAIN recipes =>
           /\ AttemptsOf(attempts, id) = {}
           /\ \A i \in DOMAIN images : images[i].recipeId # id
           /\ (last.kind = "get" /\ last.id = id) => last.resp.status = 404
  /\ \A i \in DOMAIN images :
        images[i].attemptId # NoId => images[i].attemptId \in DOMAIN attempts

\* a DELETE answered 204 for a recipe that had a best attempt, after which an
\* attempt of another recipe is still stored
C3_Witness ==
  /\ last.kind = "delete"
  /\ last.resp.status = 204
  /\ last.recipe.bestAttemptId # NoId
  /\ last.recipe.authorId = last.user
  /\ DOMAIN attempts # {}

\* C4: a PUT, PATCH or DELETE on an existing recipe by a session whose user is
\* not the recipe's author is answered 403 and changes nothing.
C4_NonOwnerForbidden ==
  [][ LET r == IF last'.kind # "none" THEN last'
               ELSE proc'[CHOOSE p \in Procs : proc[p].pc = "idle" /\ proc'[p].pc # "idle"]
      IN ( /\ started' = started + 1
           /\ r.kind \in Edits
           /\ r.user # NoId
           /\ r.id \in DOMAIN recipes
           /\ recipes[r.id].authorId # NoId
           /\ recipes[r.id].authorId # r.user )
         => last'.resp.status = 403 /\ store' = store ]_vars

\* a 403 answered to a registered user other than the recipe's author
C4_Witness ==
  /\ last.kind \in Edits
  /\ last.resp.status = 403
  /\ last.user \in users
  /\ last.id \in DOMAIN recipes
  /\ recipes[last.id].authorId \in users \ {last.user}
  /\ recipes[last.id].bestAttemptId # NoId

\* C5: a recipe whose authorId is null is never modified or removed by a PUT, PATCH
\* or DELETE of a session-bound user: the request arriving on it is answered 403
\* and changes nothing, and no later step of such a request, whenever it arrived,
\* changes the recipe's row or its direct images, removes it, or answers anything
\* but 403.
C5_UnownedNeverModified ==
  [][ /\ LET r == IF last'.kind # "none" THEN last'
                  ELSE proc'[CHOOSE p \in Procs : proc[p].pc = "idle" /\ proc'[p].pc # "idle"]
         IN ( /\ started' = started + 1
              /\ r.kind \in Edits
              /\ r.user # NoId
              /\ r.id \in DOMAIN recipes
              /\ recipes[r.id].authorId = NoId )
            => last'.resp.status = 403 /\ store' = store
      /\ \A p \in Procs :
           ( /\ proc[p].kind \in Edits
             /\ proc[p].user # NoId
             /\ proc'[p] # proc[p]
             /\ proc[p].id \in DOMAIN recipes
             /\ recipes[proc[p].id].authorId = NoId )
           => /\ proc[p].id \in DOMAIN recipes'
              /\ recipes'[proc[p].id] = recipes[proc[p].id]
              /\ RecipeImages(images', proc[p].id) = RecipeImages(images, proc[p].id)
              /\ proc'[p].pc = "idle" => last'.resp.status = 403 ]_vars

\* C6: a PATCH by the owner whose bestAttemptId is neither null nor the id of an
\* existing attempt of that recipe is answered 400 with a bestAttemptId error and
\* writes nothing: neither the other fields of the payload nor the images.
C6_BadBestAttemptRejected ==
  [][ \A p \in Procs :
        /\ ( /\ proc[p].pc = "idle"
             /\ proc'[p].kind = "patch"
             /\ proc'[p].pc # "idle" ) => store' = store
        /\ ( /\ proc[p].pc = "h_att"
             /\ proc'[p] # proc[p] )
           => /\ store' = store
              /\ LET a == IdOf(proc[p].payload.bestAttemptId)
                 IN (a \notin DOMAIN attempts \/ attempts[a].recipeId # proc[p].id)
                    => /\ last'.kind = "patch"
                       /\ last'.resp.status = 400
                       /\ \E i \in DOMAIN last'.resp.errors :
                             last'.resp.errors[i] = "bestAttemptId"
        /\ ( /\ started' = started + 1
             /\ last'.kind = "patch"
             /\ last'.id \in DOMAIN recipes
             /\ last'.user # NoId
             /\ recipes[last'.id].authorId = last'.user
             /\ last'.payload.bestAttemptId.t \notin {"undefined", "null", "string"} )
           => /\ last'.resp.status = 400
              /\ \E i \in DOMAIN last'.resp.errors : last'.resp.errors[i] = "bestAttemptId"
              /\ store' = store ]_vars

\* a PATCH carrying a title, images and the id of another recipe's attempt has
\* been answered 400, the recipe keeping its title and images
C6_Witness ==
  /\ last.kind = "patch"
  /\ last.resp.status = 400
  /\ last.payload.title.t = "string"
  /\ last.payload.images.t = "array"
  /\ IdOf(last.payload.bestAttemptId) \in DOMAIN attempts
  /\ attempts[IdOf(last.payload.bestAttemptId)].recipeId # last.id
  /\ last.id \in DOMAIN recipes
  /\ recipes[last.id].title # Trim(last.payload.title.v)
  /\ RecipeImages(images, last.id) # <<>>

\* C7 as stated: choose-best on recipe r with attempt a answers 400 and changes
\* nothing when a does not exist or belongs to another recipe; otherwise it sets
\* r's bestAttemptId to a and changes no other field of r, no attempt and no image.
C7_OnlyBestAttemptId ==
  [][ \A p \in Procs :
        /\ ( /\ proc[p].pc = "b_att"
             /\ proc'[p] # proc[p] )
           => /\ store' = store
              /\ IF proc[p].aid \notin DOMAIN attempts
                    \/ attempts[proc[p].aid].recipeId # proc[p].id
                 THEN last'.kind = "choose" /\ last'.resp.status = 400
                 ELSE proc'[p].pc = "b_update"
        /\ ( /\ proc[p].pc = "b_update"
             /\ proc'[p] # proc[p]
             /\ proc[p].id \in DOMAIN recipes )
           => /\ last'.kind = "choose"
              /\ last'.resp.status = 200
              /\ last'.resp.body.bestAttemptId = proc[p].aid
              /\ recipes' = [recipes EXCEPT ![proc[p].id].bestAttemptId = proc[p].aid]
              /\ UNCHANGED <<users, attempts, images>> ]_vars

\* C7: choose-best on recipe r with attempt a answers 400 and changes nothing when
\* a does not exist or belongs to another recipe; otherwise it sets r's
\* bestAttemptId to a, renews r's updatedAt, and changes no other field of r, no
\* other recipe, no attempt and no image.
C7_ChooseBest ==
  [][ \A p \in Procs :
        /\ ( /\ proc[p].pc = "b_att"
             /\ proc'[p] # proc[p] )
           => /\ store' = store
              /\ IF proc[p].aid \notin DOMAIN attempts
                    \/ attempts[proc[p].aid].recipeId # proc[p].id
                 THEN last'.kind = "choose" /\ last'.resp.status = 400
                 ELSE proc'[p].pc = "b_update"
        /\ ( /\ proc[p].pc = "b_update"
             /\ proc'[p] # proc[p]
             /\ proc[p].id \in DOMAIN recipes )
           => /\ last'.kind = "choose"
              /\ last'.resp.status = 200
              /\ last'.resp.body.bestAttemptId = proc[p].aid
              /\ DOMAIN recipes' = DOMAIN recipes
              /\ \A id \in DOMAIN recipes \ {proc[p].id} : recipes'[id] = recipes[id]
              /\ recipes'[proc[p].id].updatedAt > recipes[proc[p].id].updatedAt
              /\ last'.resp.body.updatedAt = recipes'[proc[p].id].updatedAt
              /\ [recipes'[proc[p].id] EXCEPT !.updatedAt = recipes[proc[p].id].updatedAt]
                 = [recipes[proc[p].id] EXCEPT !.bestAttemptId = proc[p].aid]
              /\ UNCHANGED <<users, attempts, images>> ]_vars

\* choose-best has replaced the recipe's previous best attempt by another one and
\* renewed its updatedAt
C7_Witness ==
  /\ last.kind = "choose"
  /\ last.resp.status = 200
  /\ last.recipe.bestAttemptId # NoId
  /\ last.recipe.bestAttemptId # last.aid
  /\ recipes[last.id].bestAttemptId = last.aid
  /\ recipes[last.id].updatedAt > last.recipe.updatedAt

\* C8: with one request at a time, a create whose body has a non-empty trimmed
\* value answers with a non-null bestAttempt whose body is the recipe's body; a
\* create whose body is empty, blank or absent answers with bestAttempt null and
\* has created no attempt.
C8_AutoBestAttempt ==
  (last.kind = "create" /\ last.resp.status = 201)
     => LET out == last.resp.body
        IN IF last.payload.body.t = "string" /\ Trim(last.payload.body.v) # <<>>
           THEN /\ out.bestAttempt # NoAttempt
                /\ out.bestAttempt.id = out.bestAttemptId
                /\ out.bestAttempt.body = out.body
                /\ out.body = last.payload.body.v
           ELSE /\ out.bestAttempt = NoAttempt
                /\ out.bestAttemptId = NoId
                /\ out.attempts = <<>>
                /\ AttemptsOf(attempts, out.id) = {}

\* a create with a body answered with its best attempt, after a create with a
\* blank body that left no attempt
C8_Witness ==
  /\ last.kind = "create"
  /\ last.resp.status = 201
  /\ last.resp.body.bestAttempt # NoAttempt
  /\ last.resp.body.bestAttempt.images # <<>>
  /\ \E id \in DOMAIN recipes :
        recipes[id].body = <<" ">> /\ AttemptsOf(attempts, id) = {}

\* C9: creating a recipe with its automatic attempt and best link appears as one
\* step: no reader sees the created recipe with its automatic attempt stored and
\* its bestAttemptId not yet set.
C9_CreateAtomicToReaders ==
  \A p \in Procs :
     ( /\ proc[p].kind = "create"
       /\ proc[p].pc = "c_best"
       /\ last.kind = "get"
       /\ last.id = proc[p].id
       /\ last.resp.status = 200 )
     => last.resp.body.bestAttemptId = proc[p].made

\* C10: when the create of a recipe with a body returns, the recipe has exactly
\* one attempt and it is the best attempt, whatever add-attempt or choose-best
\* requests were interleaved.
C10_OneAttemptAtReturn ==
  ( /\ last.kind = "create"
    /\ last.resp.status = 201
    /\ Trim(last.recipe.body) # <<>> )
  => /\ Len(last.resp.body.attempts) = 1
     /\ last.resp.body.bestAttemptId = last.resp.body.attempts[1].id
     /\ AttemptsOf(attempts, last.id) = {recipes[last.id].bestAttemptId}

\* C11: when DELETE /api/auth/me succeeds for user U, no recipe that U authored
\* remains in the store, nor any attempt or image belonging to such a recipe.
C11_AccountDeleteCascades ==
  [][ (last'.kind = "deleteAccount" /\ last'.resp.status = 204)
      => \A id \in DOMAIN recipes :
            recipes[id].authorId = last'.user
            => /\ id \notin DOMAIN recipes'
               /\ AttemptsOf(attempts', id) = {}
               /\ \A i \in DOMAIN images' :
                     /\ images'[i].recipeId # id
                     /\ images'[i].attemptId \notin AttemptsOf(attempts, id) ]_vars

\* C12: a register whose email, trimmed and lowercased, is the email of an
\* already registered user is answered 409 and creates no user.
C12_RegisterConflict ==
  [][ \A p \in Procs :
        LET r == IF answer'.kind # "none" THEN answer' ELSE auth'[p]
        IN ( /\ auth[p].pc = "idle"
             /\ started' = started + 1
             /\ r.kind = "register"
             /\ isNonEmptyString(r.email)
             /\ isNonEmptyString(r.password)
             /\ \E u \in DOMAIN accounts :
                   accounts[u].email = toLowerCase(Trim(r.email.v)) )
           => /\ answer'.kind = "register"
              /\ answer'.resp.status = 409
              /\ accounts' = accounts ]_vars

\* C13: a failed login answers the same status and error body for an unknown
\* email as for a known email with a wrong password: a login that found its user
\* and is refused is answered exactly as a login whose email names no user.
C13_LoginFailuresAlike ==
  (answer.kind = "login" /\ answer.row # NoRow /\ answer.resp.status # 200)
  => answer.resp = UnknownEmail

\* C14: a POST /api/recipes whose title is missing, not a string or blank is
\* answered 400 with an error entry for field "title", and no recipe, attempt or
\* image row is added.
C14_TitleRequired ==
  [][ ( /\ started' = started + 1
        /\ last'.kind = "create"
        /\ (last'.payload.title.t # "string" \/ Trim(last'.payload.title.v) = <<>>) )
      => /\ last'.resp.status = 400
         /\ \E i \in DOMAIN last'.resp.errors : last'.resp.errors[i] = "title"
         /\ store' = store ]_vars
  /\ [][ \A p \in Procs :
           (proc[p].pc = "idle" /\ proc'[p].kind = "create")
           => (proc'[p].payload.title.t = "string"
               /\ Trim(proc'[p].payload.title.v) # <<>>) ]_vars

\* a create without title, carrying a body and images, has been answered 400
\* while other recipes are stored
C14_Witness ==
  /\ last.kind = "create"
  /\ last.resp.status = 400
  /\ last.payload.title.t = "undefined"
  /\ last.payload.images.t = "array"
  /\ DOMAIN recipes # {}

\* C15: concurrent owner PUT / PATCH requests on one recipe are last-write-wins.
\* Run one after the other in either order, the writers leave as the recipe's
\* direct images the image list of one single request (each replacement removes
\* all earlier images); so must every interleaving, once no writer is in flight.
C15_LastWriteWins ==
  \A id \in DOMAIN recipes :
     (\A p \in Procs : ~(proc[p].kind \in {"put", "patch"} /\ proc[p].id = id))
     => \E pl \in CreatePayloads \cup PutPayloads \cup PatchPayloads :
           RecipeImages(images, id) = ensureArray(pl.images)

\* C16: with one request at a time, a successful owner PUT leaves as the
\* recipe's direct image urls exactly the list of its payload (none when the
\* payload has no list), whatever images the recipe had; it changes no attempt,
\* no image of an attempt and no image of another recipe.
C16_PutReplacesImages ==
  [][ \A p \in Procs :
        (proc[p].kind = "put" /\ proc'[p] # proc[p])
        => /\ attempts' = attempts
           /\ SelectSeq(images', LAMBDA i : i.recipeId # proc[p].id)
                 = SelectSeq(images, LAMBDA i : i.recipeId # proc[p].id)
           /\ (proc[p].pc = "u_update" /\ last'.resp.status = 200)
              => /\ RecipeImages(images', proc[p].id) = ensureArray(proc[p].payload.images)
                 /\ last'.resp.body.images = ensureArray(proc[p].payload.images) ]_vars

\* a PUT with image list [u2] has succeeded on a recipe created with image u1,
\* whose attempt still has its image
C16_Witness ==
  /\ last.kind = "put"
  /\ last.resp.status = 200
  /\ last.payload.images = Arr(<<"u2">>)
  /\ RecipeImages(images, last.id) = <<"u2">>
  /\ recipes[last.id].bestAttemptId # NoId
  /\ AttemptImages(images, recipes[last.id].bestAttemptId) = <<"u1">>

\* C17: no step of an owner PATCH on a stored recipe changes a part of the recipe
\* whose key is absent from the payload: title, body, feedback, meta,
\* bestAttemptId, and the direct images; nor the author or any attempt.
C17_PatchFrame ==
  [][ \A p \in Procs :
        ( /\ proc[p].kind = "patch"
          /\ proc'[p] # proc[p]
          /\ proc[p].id \in DOMAIN recipes )
        => LET id == proc[p].id
               pl == proc[p].payload
           IN /\ id \in DOMAIN recipes'
              /\ pl.title.t = "undefined" => recipes'[id].title = recipes[id].title
              /\ pl.body.t = "undefined" => recipes'[id].body = recipes[id].body
              /\ pl.feedback.t = "undefined" => recipes'[id].feedback = recipes[id].feedback
              /\ pl.meta.t = "undefined" => recipes'[id].meta = recipes[id].meta
              /\ pl.bestAttemptId.t = "undefined"
                    => recipes'[id].bestAttemptId = recipes[id].bestAttemptId
              /\ pl.images.t = "undefined"
                    => RecipeImages(images', id) = RecipeImages(images, id)
              /\ recipes'[id].authorId = recipes[id].authorId
              /\ attempts' = attempts ]_vars

\* a PATCH of the body alone has succeeded on a recipe that keeps its title, its
\* image and its best attempt
C17_Witness ==
  /\ last.kind = "patch"
  /\ last.resp.status = 200
  /\ last.payload.images.t = "undefined"
  /\ last.payload.bestAttemptId.t = "undefined"
  /\ last.payload.title.t = "undefined"
  /\ recipes[last.id].body = last.payload.body.v
  /\ recipes[last.id].body # last.recipe.body
  /\ recipes[last.id].bestAttemptId # NoId
  /\ RecipeImages(images, last.id) # <<>>

\* C18: a GET of a recipe returns as bestAttempt the attempt named by the last
\* write of its bestAttemptId (choose-best or PATCH), with that attempt's own
\* content; so a later-added attempt, once chosen, replaces the automatic one.
C18_GetShowsChosenBest ==
  (last.kind = "get" /\ last.resp.status = 200)
  => LET b == recipes[last.id].bestAttemptId
         out == last.resp.body
     IN /\ out.bestAttemptId = b
        /\ IF b = NoId THEN out.bestAttempt = NoAttempt
           ELSE /\ out.bestAttempt.id = b
                /\ b \in DOMAIN attempts
                /\ out.bestAttempt = AttemptView(attempts, images, b)

\* a GET shows as best an attempt added after the automatic one
C18_Witness ==
  /\ last.kind = "get"
  /\ last.resp.status = 200
  /\ Len(last.resp.body.attempts) > 1
  /\ last.resp.body.bestAttempt.id = last.resp.body.attempts[2].id
  /\ last.resp.body.bestAttempt.body # last.resp.body.body

\* C19: list-attempts answers 404 exactly when the recipe is absent; on an
\* existing recipe it returns exactly the stored attempts of that recipe, none of
\* another, newest first, i.e. in reverse order of their creation.
C19_ListAttempts ==
  /\ [][ (started' = started + 1 /\ last'.kind = "attempts")
         => (last'.id \notin DOMAIN recipes /\ last'.resp.status = 404) ]_vars
  /\ [][ \A p \in Procs :
           (proc[p].pc = "idle" /\ proc'[p].kind = "attempts")
           => proc'[p].id \in DOMAIN recipes ]_vars
  /\ []( (last.kind = "attempts" /\ last.resp.status = 200)
         => LET items == last.resp.body.items
            IN /\ last.resp.body.total = Len(items)
               /\ {items[i].id : i \in DOMAIN items}
                     = {a \in DOMAIN attempts : attempts[a].recipeId = last.id}
               /\ \A i \in DOMAIN items :
                     /\ items[i].recipeId = last.id
                     /\ items[i].body = attempts[items[i].id].body
               /\ \A i, j \in DOMAIN items :
                     i < j => items[i].createdAt > items[j].createdAt )

\* two attempts of one recipe listed, the later one first
C19_Witness ==
  /\ last.kind = "attempts"
  /\ last.resp.status = 200
  /\ last.resp.body.total = 2
  /\ last.resp.body.items[1].id > last.resp.body.items[2].id
  /\ last.resp.body.items[1].body # last.resp.body.items[2].body

\* C20: every auth route and every write route is rate limited per caller: a
\* caller who has already sent as many requests to the route in the window as
\* the limit of its group allows (the auth limit for register, login, logout,
\* profile update, change-password and account delete; the write limit for the
\* recipe writes, add-attempt, choose-best and upload) has the next request
\* answered 429 with the rate-limit error, and the request reaches no handler.
\* (Requests that requireAuth answers 401 for want of a session are not counted.)
C20_AuthRoutes ==
  {"register", "login", "logout", "updateMe", "changePassword", "deleteMe"}

C20_Limit == IF route \in C20_AuthRoutes THEN AuthMax ELSE WriteMax

C20_RateLimited ==
  [][ \A c \in Callers :
        (sent'[c] = sent[c] + 1 /\ sent[c] >= C20_Limit)
        => /\ reply'.caller = c
           /\ reply'.status = 429
           /\ reply'.field = <<"rateLimit">>
           /\ ~reply'.handled ]_vars

\* C21: a list-recipes request with mine and no session user is answered 401; with
\* mine and a session bound to user U it is answered 200 with recipes authored by U
\* only, and, when no search text narrows it, with every stored recipe authored by
\* U, each once.
C21_MineOnly ==
  (last.kind = "list" /\ last.mine)
  => IF last.user = NoId
     THEN last.resp.status = 401
     ELSE LET items == last.resp.body.items
              own == {id \in DOMAIN recipes : recipes[id].authorId = last.user}
          IN /\ last.resp.status = 200
             /\ \A i \in DOMAIN items :
                   items[i].authorId = last.user /\ items[i].id \in own
             /\ \A i, j \in DOMAIN items : items[i].id = items[j].id => i = j
             /\ last.q = <<>> => {items[i].id : i \in DOMAIN items} = own

\* user 1 asks for their own recipes while the store also holds a recipe of
\* another author or of nobody
C21_Witness ==
  /\ last.kind = "list" /\ last.mine /\ last.user = 1 /\ last.q = <<>>
  /\ last.resp.status = 200
  /\ last.resp.body.total = 1
  /\ \E id \in DOMAIN recipes : recipes[id].authorId # 1

\* C22: attempts are append-only: in every step each stored attempt either stays
\* with the same body, feedback, meta and recipeId, or goes together with its
\* recipe, which that step deletes.
C22_AttemptsAppendOnly ==
  [][ \A a \in DOMAIN attempts :
        IF a \in DOMAIN attempts'
        THEN /\ attempts'[a].body = attempts[a].body
             /\ attempts'[a].feedback = attempts[a].feedback
             /\ attempts'[a].meta = attempts[a].meta
             /\ attempts'[a].recipeId = attempts[a].recipeId
        ELSE /\ attempts[a].recipeId \in DOMAIN recipes
             /\ attempts[a].recipeId \notin DOMAIN recipes' ]_vars

\* a recipe and its attempt have been deleted while the attempt of another recipe
\* is still stored
C22_Witness ==
  /\ last.kind = "delete" /\ last.resp.status = 204
  /\ \E a \in DOMAIN attempts : attempts[a].recipeId # last.id
  /\ nextAttemptId > Cardinality(DOMAIN attempts) + 1

\* an add-attempt payload as the interface asks for it: a non-blank string body,
\* and feedback, images and meta either left out or of their type
WellFormedAttempt(pl) ==
  /\ pl.body.t = "string" /\ Trim(pl.body.v) # <<>>
  /\ pl.feedback.t \in {"undefined", "string"}
  /\ pl.images.t \in {"undefined", "array"}
  /\ pl.meta.t \in {"undefined", "object"}

\* C23: an add-attempt request for a recipe that is not stored is answered 404;
\* for a stored recipe with a body that is no non-blank string, or with feedback,
\* images or meta of the wrong type, it is answered 400; every add-attempt answer
\* other than 201 leaves the store as it was; a 201 adds exactly one attempt, with
\* recipeId the target recipe, and leaves the recipes as they were.
C23_AddAttempt ==
  /\ [][ \A p \in Procs :
           (proc[p].pc = "idle" /\ proc'[p].kind = "attempt")
           => (proc'[p].id \in DOMAIN recipes /\ WellFormedAttempt(proc'[p].payload)) ]_vars
  /\ [][ (started' = started + 1 /\ last'.kind = "attempt")
         => /\ last'.id \notin DOMAIN recipes => last'.resp.status = 404
            /\ last'.id \in DOMAIN recipes
                 => (last'.resp.status = 400 /\ ~WellFormedAttempt(last'.payload)) ]_vars
  /\ []( (last.kind = "attempt" /\ last.resp.status = 201) => WellFormedAttempt(last.payload) )
  /\ [][ (last'.kind = "attempt" /\ last'.resp.status # 201) => store' = store ]_vars
  /\ [][ (last'.kind = "attempt" /\ last'.resp.status = 201)
         => /\ last'.made \notin DOMAIN attempts
            /\ DOMAIN attempts' = DOMAIN attempts \cup {last'.made}
            /\ \A a \in DOMAIN attempts : attempts'[a] = attempts[a]
            /\ attempts'[last'.made].recipeId = last'.id
            /\ last'.id \in DOMAIN recipes'
            /\ recipes' = recipes ]_vars

\* an attempt has been added to a recipe that already had one
C23_Witness ==
  /\ last.kind = "attempt" /\ last.resp.status = 201
  /\ last.made \in DOMAIN attempts
  /\ attempts[last.made].recipeId = last.id
  /\ Cardinality({a \in DOMAIN attempts : attempts[a].recipeId = last.id}) = 2

\* C24: in every state each stored image has exactly one owner: exactly one of its
\* recipeId and attemptId is set, and the row it names is stored (the foreign keys
\* are ON DELETE SET NULL, so an image that outlived its owner would be an image
\* with neither).
C24_ImageHasOneOwner ==
  \A i \in DOMAIN images :
     LET img == images[i]
     IN /\ (img.recipeId # NoId) # (img.attemptId # NoId)
        /\ img.recipeId # NoId => img.recipeId \in DOMAIN recipes
        /\ img.attemptId # NoId => img.attemptId \in DOMAIN attempts

\* a recipe with images of its own and of its attempt has been deleted, or has had
\* its images replaced, while images of both kinds are stored
C24_Witness ==
  /\ last.kind \in {"delete", "put"}
  /\ last.resp.status \in {200, 204}
  /\ \E i \in DOMAIN images : images[i].recipeId # NoId
  /\ \E i \in DOMAIN images : images[i].attemptId # NoId

\* C25: a list-recipes request without search text and without mine is answered
\* 200 with every stored recipe exactly once, the newest-created first, and with
\* total the number of items.
C25_ListAll ==
  (last.kind = "list" /\ ~last.mine /\ last.q = <<>>)
  => LET items == last.resp.body.items
     IN /\ last.resp.status = 200
        /\ last.resp.body.total = Len(items)
        /\ {items[i].id : i \in DOMAIN items} = DOMAIN recipes
        /\ Len(items) = Cardinality(DOMAIN recipes)
        /\ \A i \in DOMAIN items :
              /\ items[i].title = recipes[items[i].id].title
              /\ items[i].createdAt = recipes[items[i].id].createdAt
        /\ \A i, j \in DOMAIN items : i < j => items[i].createdAt > items[j].createdAt

\* two recipes are stored and listed
C25_Witness ==
  /\ last.kind = "list" /\ ~last.mine /\ last.q = <<>>
  /\ last.resp.status = 200
  /\ last.resp.body.total = 2
  /\ last.resp.body.items[1].id > last.resp.body.items[2].id

\* C26: a create-recipe answered 201 stores and returns a recipe whose title is the
\* payload's title without its leading and trailing blanks, whose body and feedback
\* are the payload's (empty when the payload has none), and whose id is set and was
\* never given to a recipe before; a GET of that id that follows returns the same
\* recipe.
C26_CreateReturnsRecipe ==
  /\ []( (last.kind = "create" /\ last.resp.status = 201)
         => LET pl == last.payload
                out == last.resp.body
                t == out.title
                v == pl.title.v
            IN /\ t # <<>> /\ t[1] # " " /\ t[Len(t)] # " "
               /\ \E i \in 0..Len(v) :
                     /\ i + Len(t) <= Len(v)
                     /\ SubSeq(v, i + 1, i + Len(t)) = t
                     /\ \A j \in 1..Len(v) : (j <= i \/ j > i + Len(t)) => v[j] = " "
               /\ out.body = IF pl.body.t = "string" THEN pl.body.v ELSE <<>>
               /\ out.feedback = IF pl.feedback.t = "string" THEN pl.feedback.v ELSE <<>>
               /\ out.id = last.id /\ out.id # NoId
               /\ out.id \in DOMAIN recipes
               /\ recipes[out.id].title = t
               /\ recipes[out.id].body = out.body
               /\ recipes[out.id].feedback = out.feedback )
  /\ [][ /\ nextRecipeId' >= nextRecipeId
         /\ \A id \in DOMAIN recipes' \ DOMAIN recipes :
               id >= nextRecipeId /\ id < nextRecipeId' ]_vars
  /\ [][ ( /\ last.kind = "create" /\ last.resp.status = 201
           /\ last'.kind = "get" /\ last'.id = last.id )
         => (last'.resp.status = 200 /\ last'.resp.body = last.resp.body) ]_vars

\* a second recipe has been created from a title with a leading blank, and a GET of
\* a created recipe has been answered
C26_Witness ==
  /\ last.kind = "create" /\ last.resp.status = 201
  /\ last.payload.title.v # last.resp.body.title
  /\ last.id = 2
  /\ 1 \in DOMAIN recipes

\* C27: in every response that returns a recipe (create, get, list, PUT, PATCH,
\* choose-best) the derived bestAttempt is set exactly when bestAttemptId is set,
\* and then its id is bestAttemptId and it is one of the attempts returned with
\* the recipe, whose recipeId is the recipe's id.
C27_BestAttemptDerived ==
  LET shown == IF last.kind = "list" /\ last.resp.status = 200
               THEN {last.resp.body.items[i] : i \in DOMAIN last.resp.body.items}
               ELSE IF \/ last.kind = "create" /\ last.resp.status = 201
                       \/ last.kind \in {"get", "put", "patch", "choose"}
                          /\ last.resp.status = 200
               THEN {last.resp.body}
               ELSE {}
  IN \A x \in shown :
        /\ (x.bestAttempt # NoAttempt) <=> (x.bestAttemptId # NoId)
        /\ x.bestAttempt # NoAttempt
             => /\ x.bestAttempt.id = x.bestAttemptId
                /\ x.bestAttempt.recipeId = x.id
                /\ \E i \in DOMAIN x.attempts : x.attempts[i] = x.bestAttempt

\* choose-best has returned a recipe with two attempts whose best attempt is the
\* later one
C27_Witness ==
  /\ last.kind = "choose" /\ last.resp.status = 200
  /\ Len(last.resp.body.attempts) = 2
  /\ last.resp.body.bestAttempt = last.resp.body.attempts[2]

\* C28: in every state no two users have the same email, and every stored email
\* is trimmed and lowercase, whatever register and profile-update requests have
\* run and however they interleaved.
C28_EmailsUniqueNormal ==
  /\ \A u, v \in DOMAIN accounts : accounts[u].email = accounts[v].email => u = v
  /\ \A u \in DOMAIN accounts :
        LET e == accounts[u].email
        IN /\ e # <<>>
           /\ e[1] # " " /\ e[Len(e)] # " "
           /\ \A i \in DOMAIN e : e[i] \notin {"A", "B", "C"}

\* two requests asked for the same email "c@" in different spellings, both passed
\* their lookup, and one of them failed at the unique index while the other stored
\* the email
C28_Witness ==
  /\ answer.kind \in {"register", "updateMe"}
  /\ answer.resp.status = 500
  /\ answer.email.v \in {<<"c", "@">>, <<"C", "@">>, <<"c", "@", " ">>}
  /\ \E u \in DOMAIN accounts : accounts[u].email = <<"c", "@">>
  /\ \E u \in DOMAIN accounts : u >= nextUserId - 1 /\ u \notin UserIds

\* C29: when an account deletion succeeds, every recipe of that user stays stored
\* with authorId null; and no PUT, PATCH or DELETE is ever answered with success
\* on a recipe whose authorId is null.
C29_OrphanedRecipeFrozen ==
  /\ [][ (last'.kind = "deleteAccount" /\ last'.resp.status = 204)
         => \A id \in DOMAIN recipes :
               recipes[id].authorId = last'.user
               => (id \in DOMAIN recipes' /\ recipes'[id].authorId = NoId) ]_vars
  /\ [][ \A id \in DOMAIN recipes :
           (recipes[id].authorId = NoId /\ last'.kind \in Edits /\ last'.id = id)
           => last'.resp.status \notin {200, 204} ]_vars

\* C30: every call of chooseBestAttempt ends, and ends with its recipe's choosing
\* flag null, however its requests settle; likewise every call of submitAttempt
\* ends with the form's submitting flag false.  The controls of a panel are never
\* disabled for good: an open panel has choosing set, and a form has submitting
\* set, only while such a call on that recipe is still running.
C30_FlagsReset ==
  /\ [][ \A k \in Tasks :
           (calls[k].fn = "choose" /\ calls'[k].fn = "none")
           => expanded'[calls[k].recipeId].choosing = NoId ]_vars
  /\ [][ \A k \in Tasks :
           (calls[k].fn = "submit" /\ calls'[k].fn = "none")
           => ~attemptForms'[calls[k].recipeId].submitting ]_vars
  /\ [](\A r \in FrontRecipes :
          (expanded[r].open /\ expanded[r].choosing # NoId)
          => \E k \in Tasks : calls[k].fn = "choose" /\ calls[k].recipeId = r)
  /\ [](\A r \in FrontRecipes :
          attemptForms[r].submitting
          => \E k \in Tasks : calls[k].fn = "submit" /\ calls[k].recipeId = r)
  /\ \A k \in Tasks : (calls[k].fn \in {"choose", "submit"}) ~> (calls[k].fn = "none")

\* a chooseBestAttempt has ended in its catch block, with the error shown and
\* the choosing flag null, while a submitAttempt is waiting for the body of its
\* upload
C30_Witness ==
  /\ \E r \in FrontRecipes : expanded[r].choosingError /\ expanded[r].choosing = NoId
  /\ \E k \in Tasks : calls[k].fn = "submit" /\ calls[k].pc = "upload_json"
  /\ \E k \in Tasks : calls[k].fn = "none"

====
